---------------------------- MODULE Spec2Model ----------------------------
(***************************************************************************)
(* Transactional storage core of the snarkVM ledger: the Map batch         *)
(* protocol, the atomic_batch_scope / atomic_finalize macros, and the      *)
(* deployment, execution and transaction stores built on them.             *)
(***************************************************************************)
EXTENDS Integers, Sequences, FiniteSets, TLC

VARIABLES
    store,   \* every map: confirmed content, atomic batch, checkpoints, flag
    frames,  \* the macro invocations whose body is running, outermost first
    last,    \* what the most recent call did (observation of its return)
    failed   \* the number of storage calls that returned an error so far

vars == <<store, frames, last, failed>>

(***************************************************************************)
(* Bounds of the model.                                                    *)
(***************************************************************************)
MaxDepth == 3      \* macro invocations nested at one time
MaxStaged == 2     \* writes a body stages in one batch
MaxCheckpoints == 2   \* checkpoints on a map's stack

(***************************************************************************)
(* The maps.  Participants is the fan-out order of DeploymentStorage.      *)
(***************************************************************************)
Participants ==
    << "id", "edition", "reverse_id", "owner", "program",
       "verifying_key", "certificate", "fee", "reverse_fee", "transition" >>

NumParticipants == Len(Participants)

ParticipantSet == { Participants[i] : i \in 1..NumParticipants }

ExecutionMaps == { "x_id", "x_reverse_id", "x_edition" }

AllMaps == ParticipantSet \cup ExecutionMaps \cup { "tx_kind" }

IndexOf(m) == CHOOSE i \in 1..NumParticipants : Participants[i] = m

(***************************************************************************)
(* Option<V>: None is <<>>, Some(v) is <<v>>.                              *)
(***************************************************************************)
None == << >>
Some(v) == << v >>
IsSome(o) == Len(o) = 1
Unwrap(o) == o[1]

(***************************************************************************)
(* Confirmed content of one map: a function from the keys present.         *)
(***************************************************************************)
EmptyMap == << >>

Has(f, k) == k \in DOMAIN f

Get(f, k) == IF k \in DOMAIN f THEN Some(f[k]) ELSE None

Put(f, k, v) == [ x \in (DOMAIN f) \cup {k} |-> IF x = k THEN v ELSE f[x] ]

Del(f, k) ==
    IF (DOMAIN f) \ {k} = {} THEN EmptyMap
    ELSE [ x \in (DOMAIN f) \ {k} |-> f[x] ]

\* One staged operation applied to the confirmed content.
ApplyOp(f, op) ==
    IF IsSome(op.value) THEN Put(f, op.key, Unwrap(op.value)) ELSE Del(f, op.key)

\* Mutant: the staged operations applied from the last to the first.
RECURSIVE ApplyBatchLastFirst(_, _)
ApplyBatchLastFirst(f, ops) ==
    IF ops = << >> THEN f
    ELSE ApplyOp(ApplyBatchLastFirst(f, Tail(ops)), Head(ops))

\* The staged operations of a batch applied in insertion order.
RECURSIVE ApplyBatch(_, _)
ApplyBatch(f, ops) ==
    IF ops = << >> THEN f
    ELSE ApplyBatch(ApplyOp(f, Head(ops)), Tail(ops))

(***************************************************************************)
(* Map: the batch protocol of a single map m of the store s.               *)
(***************************************************************************)
MapIsAtomicInProgress(s, m) == s.open[m]

MapStartAtomic(s, m) == [ s EXCEPT !.open[m] = TRUE ]

\* insert and remove are queued while a batch is open, written otherwise.
MapWrite(s, m, k, ov) ==
    IF s.open[m]
    THEN [ s EXCEPT !.batch[m] = Append(@, [ key |-> k, value |-> ov ]) ]
    ELSE [ s EXCEPT !.db[m] = ApplyOp(@, [ key |-> k, value |-> ov ]) ]

MapInsert(s, m, k, v) == MapWrite(s, m, k, Some(v))

MapRemove(s, m, k) == MapWrite(s, m, k, None)

MapAtomicCheckpoint(s, m) ==
    [ s EXCEPT !.cps[m] = Append(@, Len(s.batch[m])) ]

\* Mutant: a rewind that goes back to start_atomic whatever the checkpoints.
MapAtomicRewindToStart(s, m) ==
    [ s EXCEPT !.batch[m] = << >>, !.cps[m] = << >> ]

\* Mutant: a rewind without checkpoint that also ends the batch.
MapAtomicRewindEndsBatch(s, m) ==
    IF s.cps[m] = << >>
    THEN [ s EXCEPT !.batch[m] = << >>, !.open[m] = FALSE ]
    ELSE [ s EXCEPT !.batch[m] = SubSeq(@, 1, s.cps[m][Len(s.cps[m])]),
                    !.cps[m] = SubSeq(@, 1, Len(@) - 1) ]

MapAtomicRewind(s, m) ==
    LET cp == IF s.cps[m] = << >> THEN 0 ELSE s.cps[m][Len(s.cps[m])]
    IN  [ s EXCEPT !.batch[m] = SubSeq(@, 1, cp),
                   !.cps[m] = IF @ = << >> THEN << >> ELSE SubSeq(@, 1, Len(@) - 1) ]

\* Mutant: an abort that ends the batch and keeps the checkpoints.
MapAbortAtomicKeepsCheckpoints(s, m) ==
    [ s EXCEPT !.batch[m] = << >>, !.open[m] = FALSE ]

MapAbortAtomic(s, m) ==
    [ s EXCEPT !.batch[m] = << >>, !.cps[m] = << >>, !.open[m] = FALSE ]

MapFinishAtomic(s, m) ==
    [ s EXCEPT !.db[m] = ApplyBatch(@, s.batch[m]),
               !.batch[m] = << >>, !.cps[m] = << >>, !.open[m] = FALSE ]

MapGetConfirmed(s, m, k) == Get(s.db[m], k)

(***************************************************************************)
(* DeploymentStorage: the fan-out of the batch protocol.                   *)
(***************************************************************************)
MapStep(op, s, m) ==
    CASE op = "start_atomic"      -> MapStartAtomic(s, m)
      [] op = "atomic_checkpoint" -> MapAtomicCheckpoint(s, m)
      [] op = "atomic_rewind"     -> MapAtomicRewind(s, m)
      [] op = "abort_atomic"      -> MapAbortAtomic(s, m)

RECURSIVE FanOut(_, _, _)
FanOut(op, s, i) ==
    IF i > NumParticipants THEN s
    ELSE FanOut(op, MapStep(op, s, Participants[i]), i + 1)

StartAtomic(s) == FanOut("start_atomic", s, 1)

IsAtomicInProgress(s) == \E i \in 1..NumParticipants : s.open[Participants[i]]

AtomicCheckpoint(s) == FanOut("atomic_checkpoint", s, 1)

\* Mutant: a rewind that leaves out the transition store.
AtomicRewindButTransitions(s) ==
    [ FanOut("atomic_rewind", s, 1) EXCEPT !.batch["transition"] = s.batch["transition"],
                                           !.cps["transition"] = s.cps["transition"] ]

AtomicRewind(s) == FanOut("atomic_rewind", s, 1)

AbortAtomic(s) == FanOut("abort_atomic", s, 1)

\* Mutant: a finish_atomic that goes on after the participant whose commit
\* fails and commits every other participant.
FinishAllBut(s, i, failAt) ==
    [ s EXCEPT !.db = [ m \in AllMaps |->
                          IF m \in ParticipantSet /\ IndexOf(m) # failAt
                          THEN ApplyBatch(s.db[m], s.batch[m]) ELSE s.db[m] ],
               !.batch = [ m \in AllMaps |->
                             IF m \in ParticipantSet /\ IndexOf(m) # failAt
                             THEN << >> ELSE s.batch[m] ],
               !.cps = [ m \in AllMaps |->
                           IF m \in ParticipantSet /\ IndexOf(m) # failAt
                           THEN << >> ELSE s.cps[m] ],
               !.open = [ m \in AllMaps |->
                            IF m \in ParticipantSet /\ IndexOf(m) # failAt
                            THEN FALSE ELSE s.open[m] ] ]

\* Mutant: a finish_atomic that leaves out the transition store.
RECURSIVE FinishUpToButTransitions(_, _, _)
FinishUpToButTransitions(s, i, failAt) ==
    IF i >= NumParticipants \/ i = failAt THEN s
    ELSE FinishUpToButTransitions(MapFinishAtomic(s, Participants[i]), i + 1, failAt)

\* finish_atomic commits in the declared order and returns at the first
\* participant whose commit fails (failAt; 0 when none fails).
RECURSIVE FinishUpTo(_, _, _)
FinishUpTo(s, i, failAt) ==
    IF i > NumParticipants \/ i = failAt THEN s
    ELSE FinishUpTo(MapFinishAtomic(s, Participants[i]), i + 1, failAt)

FinishAtomic(s, failAt) ==
    [ ok |-> failAt = 0, store |-> FinishUpTo(s, 1, failAt) ]

(***************************************************************************)
(* atomic_batch_scope!                                                     *)
(***************************************************************************)
\* Mutant: a scope that calls start_atomic whether or not a batch is in
\* progress.
AtomicBatchScopeEnterAlwaysStarts(s) ==
    [ nested |-> IsAtomicInProgress(s), store |-> StartAtomic(s) ]

AtomicBatchScopeEnter(s) ==
    LET is_atomic_in_progress == IsAtomicInProgress(s)
    IN  [ nested |-> is_atomic_in_progress,
          store  |-> IF is_atomic_in_progress
                     THEN AtomicCheckpoint(s) ELSE StartAtomic(s) ]

\* Mutant: a top-level scope that aborts the batch on success.
AtomicBatchScopeOkAborts(s, nested, failAt) ==
    [ ok |-> TRUE, store |-> IF nested THEN s ELSE AbortAtomic(s) ]

\* Mutant: a nested scope that commits on success.
AtomicBatchScopeOkCommitsNested(s, nested, failAt) == FinishAtomic(s, failAt)

AtomicBatchScopeOk(s, nested, failAt) ==
    IF nested THEN [ ok |-> TRUE, store |-> s ] ELSE FinishAtomic(s, failAt)

\* Mutant: a failing scope that returns without rewinding.
AtomicBatchScopeErrKeepsWrites(s) == [ ok |-> FALSE, store |-> s ]

AtomicBatchScopeErr(s) == [ ok |-> FALSE, store |-> AtomicRewind(s) ]

(***************************************************************************)
(* atomic_finalize!                                                        *)
(***************************************************************************)
\* Mutant: the reentrance guard aborts the batch it found before bailing.
AtomicFinalizeEnterAborting(s) ==
    IF IsAtomicInProgress(s)
    THEN [ bail |-> TRUE, store |-> AbortAtomic(s) ]
    ELSE [ bail |-> FALSE, store |-> StartAtomic(s) ]

AtomicFinalizeEnter(s) ==
    IF IsAtomicInProgress(s)
    THEN [ bail |-> TRUE, store |-> s ]
    ELSE [ bail |-> FALSE, store |-> StartAtomic(s) ]

AtomicFinalizeOk(s, failAt) == FinishAtomic(s, failAt)

\* Mutant: the error branch rewinds, as atomic_batch_scope does.
AtomicFinalizeErrRewinds(s) == [ ok |-> FALSE, store |-> AtomicRewind(s) ]

AtomicFinalizeErr(s) == [ ok |-> FALSE, store |-> AbortAtomic(s) ]


(***************************************************************************)
(* Initial state: every map empty and idle, no macro running.              *)
(***************************************************************************)
InitStore ==
    [ db    |-> [ m \in AllMaps |-> EmptyMap ],
      batch |-> [ m \in AllMaps |-> << >> ],
      cps   |-> [ m \in AllMaps |-> << >> ],
      open  |-> [ m \in AllMaps |-> FALSE ] ]

NoCall ==
    [ op |-> "none", nested |-> FALSE, body |-> "none", ok |-> TRUE,
      bail |-> FALSE, partial |-> FALSE, depth |-> 0, arg |-> 0,
      entry |-> InitStore, ret |-> InitStore ]

Init ==
    /\ store = InitStore
    /\ frames = << >>
    /\ last = NoCall
    /\ failed = 0

\* A failed finish_atomic is an unrecoverable storage fault: the caller stops.
Halted == last.partial

Top == frames[Len(frames)]

Pop == SubSeq(frames, 1, Len(frames) - 1)

RECURSIVE SumLen(_, _)
SumLen(b, i) ==
    IF i > NumParticipants THEN 0
    ELSE Len(b[Participants[i]]) + SumLen(b, i + 1)

StagedCount(s) == SumLen(s.batch, 1)

\* The participants' part of a per-map component (db, batch, cps, open).
OfParticipants(f) == [ m \in ParticipantSet |-> f[m] ]

(***************************************************************************)
(* The writes a macro body makes: inserts and removes on the owner's maps. *)
(***************************************************************************)
BodyWrites ==
    { [ map |-> "id", key |-> 1, value |-> Some(1) ],
      [ map |-> "transition", key |-> 1, value |-> Some(1) ] }

(***************************************************************************)
(* Steps of a caller that uses the two macros on a DeploymentStorage.      *)
(***************************************************************************)
ScopeEnter ==
    /\ ~Halted
    /\ Len(frames) < MaxDepth
    /\ Len(store.cps[Participants[1]]) < MaxCheckpoints
    /\ LET e == AtomicBatchScopeEnter(store)
       IN  /\ store' = e.store
           /\ frames' = Append(frames,
                  [ macro |-> "scope", nested |-> e.nested, entry |-> store ])
    /\ last' = [ NoCall EXCEPT !.op = "enter" ]
    /\ UNCHANGED failed

BodyWrite ==
    /\ ~Halted
    /\ StagedCount(store) < MaxStaged
    /\ \E w \in BodyWrites : store' = MapWrite(store, w.map, w.key, w.value)
    /\ UNCHANGED <<frames, failed>>
    /\ last' = [ NoCall EXCEPT !.op = "write" ]

ScopeReturnOk ==
    /\ ~Halted
    /\ frames # << >>
    /\ Top.macro = "scope"
    /\ \E failAt \in (IF Top.nested THEN {0} ELSE 0..NumParticipants) :
          LET r == AtomicBatchScopeOk(store, Top.nested, failAt)
          IN  /\ store' = r.store
              /\ last' = [ op |-> "scope", nested |-> Top.nested, body |-> "Ok",
                           ok |-> r.ok, bail |-> FALSE, partial |-> ~r.ok,
                           depth |-> Len(frames) - 1, arg |-> 0, entry |-> Top.entry, ret |-> store ]
    /\ frames' = Pop
    /\ UNCHANGED failed

ScopeReturnErr ==
    /\ ~Halted
    /\ frames # << >>
    /\ Top.macro = "scope"
    /\ LET r == AtomicBatchScopeErr(store)
       IN  /\ store' = r.store
           /\ last' = [ op |-> "scope", nested |-> Top.nested, body |-> "Err",
                        ok |-> r.ok, bail |-> FALSE, partial |-> FALSE,
                        depth |-> Len(frames) - 1, arg |-> 0, entry |-> Top.entry, ret |-> store ]
    /\ frames' = Pop
    /\ UNCHANGED failed

FinalizeEnter ==
    /\ ~Halted
    /\ Len(frames) < MaxDepth
    /\ LET e == AtomicFinalizeEnter(store)
       IN  /\ ~e.bail
           /\ store' = e.store
           /\ frames' = Append(frames,
                  [ macro |-> "finalize", nested |-> FALSE, entry |-> store ])
    /\ last' = [ NoCall EXCEPT !.op = "enter" ]
    /\ UNCHANGED failed

FinalizeBail ==
    /\ ~Halted
    /\ LET e == AtomicFinalizeEnter(store)
       IN  /\ e.bail
           /\ store' = e.store
           /\ last' = [ op |-> "finalize", nested |-> FALSE, body |-> "none",
                        ok |-> FALSE, bail |-> TRUE, partial |-> FALSE,
                        depth |-> Len(frames), arg |-> 0, entry |-> store, ret |-> store ]
    /\ UNCHANGED <<frames, failed>>

FinalizeReturnOk ==
    /\ ~Halted
    /\ frames # << >>
    /\ Top.macro = "finalize"
    /\ \E failAt \in 0..NumParticipants :
          LET r == AtomicFinalizeOk(store, failAt)
          IN  /\ store' = r.store
              /\ last' = [ op |-> "finalize", nested |-> FALSE, body |-> "Ok",
                           ok |-> r.ok, bail |-> FALSE, partial |-> ~r.ok,
                           depth |-> Len(frames) - 1, arg |-> 0, entry |-> Top.entry, ret |-> store ]
    /\ frames' = Pop
    /\ UNCHANGED failed

FinalizeReturnErr ==
    /\ ~Halted
    /\ frames # << >>
    /\ Top.macro = "finalize"
    /\ LET r == AtomicFinalizeErr(store)
       IN  /\ store' = r.store
           /\ last' = [ op |-> "finalize", nested |-> FALSE, body |-> "Err",
                        ok |-> r.ok, bail |-> FALSE, partial |-> FALSE,
                        depth |-> Len(frames) - 1, arg |-> 0, entry |-> Top.entry, ret |-> store ]
    /\ frames' = Pop
    /\ UNCHANGED failed

NextScope ==
    \/ ScopeEnter
    \/ BodyWrite
    \/ ScopeReturnOk
    \/ ScopeReturnErr
    \/ FinalizeEnter
    \/ FinalizeBail
    \/ FinalizeReturnOk
    \/ FinalizeReturnErr

SpecScope == Init /\ [][NextScope]_vars


(***************************************************************************)
(* Properties of the two macros (specification SpecScope).                 *)
(***************************************************************************)
\* No participant has a batch in progress, a staged write or a checkpoint.
Idle(s) ==
    \A m \in ParticipantSet :
        ~s.open[m] /\ s.batch[m] = << >> /\ s.cps[m] = << >>

\* Every participant's confirmed content in `after` is its content in
\* `before` with the writes staged in `before` applied.
CommittedAll(before, after) ==
    \A m \in ParticipantSet :
        after.db[m] = ApplyBatch(before.db[m], before.batch[m])

SameConfirmed(a, b) == OfParticipants(a.db) = OfParticipants(b.db)

SameStaged(a, b) == OfParticipants(a.batch) = OfParticipants(b.batch)

ReturnedFrom(macro, body) == last.op = macro /\ last.body = body

\* C1: after a nested atomic_batch_scope returns Err, the staged writes of
\* the owner are exactly those staged when the scope was entered.
C1_NestedErrRestoresEntry ==
    (ReturnedFrom("scope", "Err") /\ last.nested)
        => SameStaged(store, last.entry)

\* C2: after a top-level atomic_batch_scope returns Err, no batch is in
\* progress on the owner and nothing is staged.
C2_TopLevelErrEndsBatch ==
    (ReturnedFrom("scope", "Err") /\ ~last.nested)
        => (~IsAtomicInProgress(store) /\ StagedCount(store) = 0)

\* C3 as stated: atomic_finalize entered with no batch in progress commits
\* every staged write when the body returns Ok, restores the confirmed state
\* when the body returns Err, and leaves the owner Idle in both cases.
C3_FinalizeCommitsOrAborts ==
    /\ ReturnedFrom("finalize", "Ok") => (CommittedAll(last.ret, store) /\ Idle(store))
    /\ ReturnedFrom("finalize", "Err") => (SameConfirmed(store, last.entry) /\ Idle(store))

\* C3 amended: the same, for a body that returns Ok only when finish_atomic
\* itself returns Ok.
C3_FinalizeCommitsOrAbortsUnlessCommitFails ==
    /\ (ReturnedFrom("finalize", "Ok") /\ last.ok)
          => (CommittedAll(last.ret, store) /\ Idle(store))
    /\ ReturnedFrom("finalize", "Err") => (SameConfirmed(store, last.entry) /\ Idle(store))

\* An atomic_finalize whose body staged writes has committed them.
C3_Witness ==
    /\ ReturnedFrom("finalize", "Ok") /\ last.ok
    /\ StagedCount(last.ret) = MaxStaged
    /\ Has(store.db["id"], 1) /\ Has(store.db["transition"], 1)

\* C4: atomic_finalize called while a batch is in progress fails without
\* running the body and leaves the store, staged writes and checkpoints
\* included, as it was.
C4_FinalizeBailChangesNothing ==
    last.bail =>
        /\ ~last.ok
        /\ store = last.entry
        /\ IsAtomicInProgress(store)
        /\ Len(frames) = last.depth

\* atomic_finalize bailed on a batch that holds staged writes and a checkpoint.
C4_Witness ==
    /\ last.bail
    /\ StagedCount(store) > 0
    /\ store.cps["id"] # << >>

\* C5: a nested atomic_batch_scope that returns Ok commits nothing and keeps
\* its writes staged; the confirmed state stays as it was when the batch was
\* started until the scope that started the batch finishes it, and that
\* commit applies every staged write, the nested ones included.
C5_NestedOkCommitsWithOuter ==
    /\ (ReturnedFrom("scope", "Ok") /\ last.nested)
          => (SameConfirmed(store, last.ret) /\ SameStaged(store, last.ret)
              /\ IsAtomicInProgress(store))
    /\ (frames # << >> /\ ~frames[1].nested)
          => SameConfirmed(store, frames[1].entry)
    /\ (ReturnedFrom("scope", "Ok") /\ ~last.nested /\ last.ok)
          => CommittedAll(last.ret, store)

\* A nested scope staged writes and returned Ok: they are staged, not confirmed.
C5_Witness ==
    /\ ReturnedFrom("scope", "Ok") /\ last.nested
    /\ Len(store.batch["id"]) > Len(last.entry.batch["id"])
    /\ ~Has(store.db["id"], 1)

(***************************************************************************)
(* The transactions offered to the stores.  A transaction ID is the hash   *)
(* of the transaction, so each ID names one transaction.                   *)
(*   1: deploys program 1, edition 0      2: deploys program 1, edition 1   *)
(*   3: deploys program 2, edition 0      4: a deployment that is not       *)
(*   ordered (its verifying keys do not follow the program's functions)     *)
(*   5: executes transitions 5, 6         6: executes transition 6, with    *)
(*   the fee transition 7                                                   *)
(***************************************************************************)
TxIds == 1..6

Deploy(id, owner, program_id, edition, functions, verifying_keys, fee) ==
    [ kind |-> "Deploy", id |-> id, owner |-> owner, program_id |-> program_id,
      edition |-> edition, functions |-> functions,
      verifying_keys |-> verifying_keys, transitions |-> << >>,
      fee |-> Some(fee) ]

Execute(id, edition, transitions, optional_fee) ==
    [ kind |-> "Execute", id |-> id, owner |-> 0, program_id |-> 0,
      edition |-> edition, functions |-> << >>, verifying_keys |-> << >>,
      transitions |-> transitions, fee |-> optional_fee ]

Tx(i) ==
    CASE i = 1 -> Deploy(1, 1, 1, 0, << 1 >>, << 1 >>, 1)
      [] i = 2 -> Deploy(2, 2, 1, 1, << 1, 2 >>, << 1, 2 >>, 2)
      [] i = 3 -> Deploy(3, 1, 2, 0, << 1 >>, << 1 >>, 1)
      [] i = 4 -> Deploy(4, 2, 2, 1, << 1, 2 >>, << 2, 1 >>, 4)
      [] i = 5 -> Execute(5, 0, << 5, 6 >>, None)
      [] i = 6 -> Execute(6, 0, << 6 >>, Some(7))

\* Deployment::check_is_ordered: the verifying keys follow the functions.
CheckIsOrdered(tx) == tx.verifying_keys = tx.functions

\* The opaque values stored for a deployment.
ProgramOf(tx) == [ id |-> tx.program_id, functions |-> tx.functions ]

VerifyingKeyOf(tx, function_name) == << "vk", tx.id, function_name >>

CertificateOf(tx, function_name) == << "cert", tx.id, function_name >>

\* The fee map entry of tx: the ID of the fee transition, the global state
\* root of the fee and its (absent) inclusion proof.
FeeEntryOf(tx) == << Unwrap(tx.fee), << "root", Unwrap(tx.fee) >>, None >>

\* The transition with the given ID, and the ID of a transition (the ID is
\* computed from the content).
TransitionOf(transition_id) == << "transition", transition_id >>

TransitionID(transition) == transition[2]

Write(m, k, ov) == [ map |-> m, key |-> k, value |-> ov ]

\* The first n of the writes ws made on the store, in order.
RECURSIVE Stage(_, _, _)
Stage(s, ws, n) ==
    IF n = 0 \/ ws = << >> THEN s
    ELSE Stage(MapWrite(s, Head(ws).map, Head(ws).key, Head(ws).value),
               Tail(ws), n - 1)

\* A body that makes the writes ws in order; the call numbered failStep
\* returns Err (0: none does) and `?` returns it from the body.
RunOps(s, ws, failStep) ==
    IF failStep = 0 \/ failStep > Len(ws)
    THEN [ ok |-> TRUE, store |-> Stage(s, ws, Len(ws)) ]
    ELSE [ ok |-> FALSE, store |-> Stage(s, ws, failStep - 1) ]

\* atomic_batch_scope!(self, { ws }) as one call.
AtomicBatchScope(s, ws, failStep, failAt) ==
    LET e == AtomicBatchScopeEnter(s)
        b == RunOps(e.store, ws, failStep)
    IN  IF b.ok THEN AtomicBatchScopeOk(b.store, e.nested, failAt)
        ELSE AtomicBatchScopeErr(b.store)

(***************************************************************************)
(* DeploymentStorage                                                       *)
(***************************************************************************)
RECURSIVE VerifyingKeyInserts(_, _)
VerifyingKeyInserts(tx, names) ==
    IF names = << >> THEN << >>
    ELSE << Write("verifying_key", << tx.program_id, Head(names), tx.edition >>,
                  Some(VerifyingKeyOf(tx, Head(names)))),
            Write("certificate", << tx.program_id, Head(names), tx.edition >>,
                  Some(CertificateOf(tx, Head(names)))) >>
         \o VerifyingKeyInserts(tx, Tail(names))

\* Mutant: an insert that does not store the fee transition.
DeploymentInsertOpsNoFeeTransition(tx) ==
    << Write("id", tx.id, Some(tx.program_id)),
       Write("edition", tx.program_id, Some(tx.edition)),
       Write("reverse_id", << tx.program_id, tx.edition >>, Some(tx.id)),
       Write("owner", << tx.program_id, tx.edition >>, Some(tx.owner)),
       Write("program", << tx.program_id, tx.edition >>, Some(ProgramOf(tx))) >>
    \o VerifyingKeyInserts(tx, tx.verifying_keys)
    \o << Write("fee", tx.id, Some(FeeEntryOf(tx))),
          Write("reverse_fee", Unwrap(tx.fee), Some(tx.id)) >>

DeploymentInsertOps(tx) ==
    << Write("id", tx.id, Some(tx.program_id)),
       Write("edition", tx.program_id, Some(tx.edition)),
       Write("reverse_id", << tx.program_id, tx.edition >>, Some(tx.id)),
       Write("owner", << tx.program_id, tx.edition >>, Some(tx.owner)),
       Write("program", << tx.program_id, tx.edition >>, Some(ProgramOf(tx))) >>
    \o VerifyingKeyInserts(tx, tx.verifying_keys)
    \o << Write("fee", tx.id, Some(FeeEntryOf(tx))),
          Write("reverse_fee", Unwrap(tx.fee), Some(tx.id)),
          Write("transition", Unwrap(tx.fee), Some(TransitionOf(Unwrap(tx.fee)))) >>

\* Mutant: an insert that rejects a transaction the id map holds.
DeploymentInsertRejectsStored(s, tx, failStep, failAt) ==
    IF tx.kind # "Deploy" THEN [ ok |-> FALSE, store |-> s ]
    ELSE IF ~CheckIsOrdered(tx) THEN [ ok |-> FALSE, store |-> s ]
    ELSE IF Has(s.db["id"], tx.id) THEN [ ok |-> FALSE, store |-> s ]
    ELSE AtomicBatchScope(s, DeploymentInsertOps(tx), failStep, failAt)

\* Mutant: an insert that makes its checks inside the scope.
DeploymentInsertChecksInScope(s, tx, failStep, failAt) ==
    IF tx.kind # "Deploy" \/ ~CheckIsOrdered(tx)
    THEN AtomicBatchScopeErr(AtomicBatchScopeEnter(s).store)
    ELSE AtomicBatchScope(s, DeploymentInsertOps(tx), failStep, failAt)

DeploymentInsert(s, tx, failStep, failAt) ==
    IF tx.kind # "Deploy" THEN [ ok |-> FALSE, store |-> s ]
    ELSE IF ~CheckIsOrdered(tx) THEN [ ok |-> FALSE, store |-> s ]
    ELSE AtomicBatchScope(s, DeploymentInsertOps(tx), failStep, failAt)

RECURSIVE VerifyingKeyRemoves(_, _, _)
VerifyingKeyRemoves(program_id, edition, names) ==
    IF names = << >> THEN << >>
    ELSE << Write("verifying_key", << program_id, Head(names), edition >>, None),
            Write("certificate", << program_id, Head(names), edition >>, None) >>
         \o VerifyingKeyRemoves(program_id, edition, Tail(names))

DeploymentRemoveOps(transaction_id, program_id, edition, program, transition_id) ==
    << Write("id", transaction_id, None),
       Write("edition", program_id, None),
       Write("reverse_id", << program_id, edition >>, None),
       Write("owner", << program_id, edition >>, None),
       Write("program", << program_id, edition >>, None) >>
    \o VerifyingKeyRemoves(program_id, edition, program.functions)
    \o << Write("fee", transaction_id, None),
          Write("reverse_fee", transition_id, None),
          Write("transition", transition_id, None) >>

\* Mutant: a remove whose lookups read the staged writes before the
\* confirmed content.
DeploymentRemoveSpeculative(s, transaction_id, failStep, failAt) ==
    LET speculative(m, k) ==
            LET on == { j \in 1..Len(s.batch[m]) : s.batch[m][j].key = k }
            IN  IF on = {} THEN MapGetConfirmed(s, m, k)
                ELSE s.batch[m][CHOOSE j \in on : \A i \in on : i <= j].value
        program_id == speculative("id", transaction_id)
        edition == speculative("edition", Unwrap(program_id))
        program == speculative("program", << Unwrap(program_id), Unwrap(edition) >>)
        fee == speculative("fee", transaction_id)
    IN  IF ~IsSome(program_id) THEN [ ok |-> FALSE, store |-> s ]
        ELSE IF ~IsSome(edition) THEN [ ok |-> FALSE, store |-> s ]
        ELSE IF ~IsSome(program) THEN [ ok |-> FALSE, store |-> s ]
        ELSE IF ~IsSome(fee) THEN [ ok |-> FALSE, store |-> s ]
        ELSE AtomicBatchScope(s,
                 DeploymentRemoveOps(transaction_id, Unwrap(program_id),
                                     Unwrap(edition), Unwrap(program), Unwrap(fee)[1]),
                 failStep, failAt)

\* Mutant: a remove that makes its lookups inside the scope.
DeploymentRemoveLooksUpInScope(s, transaction_id, failStep, failAt) ==
    LET program_id == MapGetConfirmed(s, "id", transaction_id)
        edition == MapGetConfirmed(s, "edition", Unwrap(program_id))
        program == MapGetConfirmed(s, "program", << Unwrap(program_id), Unwrap(edition) >>)
        fee == MapGetConfirmed(s, "fee", transaction_id)
    IN  IF ~IsSome(program_id) \/ ~IsSome(edition) \/ ~IsSome(program) \/ ~IsSome(fee)
        THEN AtomicBatchScopeErr(AtomicBatchScopeEnter(s).store)
        ELSE AtomicBatchScope(s,
                 DeploymentRemoveOps(transaction_id, Unwrap(program_id),
                                     Unwrap(edition), Unwrap(program), Unwrap(fee)[1]),
                 failStep, failAt)

DeploymentRemove(s, transaction_id, failStep, failAt) ==
    LET program_id == MapGetConfirmed(s, "id", transaction_id)
        edition == MapGetConfirmed(s, "edition", Unwrap(program_id))
        program == MapGetConfirmed(s, "program", << Unwrap(program_id), Unwrap(edition) >>)
        fee == MapGetConfirmed(s, "fee", transaction_id)
    IN  IF ~IsSome(program_id) THEN [ ok |-> FALSE, store |-> s ]
        ELSE IF ~IsSome(edition) THEN [ ok |-> FALSE, store |-> s ]
        ELSE IF ~IsSome(program) THEN [ ok |-> FALSE, store |-> s ]
        ELSE IF ~IsSome(fee) THEN [ ok |-> FALSE, store |-> s ]
        ELSE AtomicBatchScope(s,
                 DeploymentRemoveOps(transaction_id, Unwrap(program_id),
                                     Unwrap(edition), Unwrap(program), Unwrap(fee)[1]),
                 failStep, failAt)

(***************************************************************************)
(* ExecutionStorage                                                        *)
(***************************************************************************)
RECURSIVE TransitionInserts(_, _)
TransitionInserts(tx, transition_ids) ==
    IF transition_ids = << >> THEN << >>
    ELSE << Write("x_reverse_id", Head(transition_ids), Some(tx.id)),
            Write("transition", Head(transition_ids),
                  Some(TransitionOf(Head(transition_ids)))) >>
         \o TransitionInserts(tx, Tail(transition_ids))

\* Mutant: an insert that does not store the additional fee.
ExecutionInsertOpsNoFee(tx) ==
    << Write("x_id", tx.id, Some(<< tx.transitions, tx.fee >>)),
       Write("x_edition", tx.id, Some(tx.edition)) >>
    \o TransitionInserts(tx, tx.transitions)

ExecutionInsertOps(tx) ==
    << Write("x_id", tx.id, Some(<< tx.transitions, tx.fee >>)),
       Write("x_edition", tx.id, Some(tx.edition)) >>
    \o TransitionInserts(tx, tx.transitions)
    \o TransitionInserts(tx, tx.fee)

ExecutionInsert(s, tx, failStep) ==
    IF tx.kind # "Execute" THEN [ ok |-> FALSE, store |-> s ]
    ELSE RunOps(s, ExecutionInsertOps(tx), failStep)

\* Mutant: a remove that leaves the reverse ID entries of the transitions.
TransitionRemovesKeepReverse(transition_ids) ==
    [ j \in 1..Len(transition_ids) |-> Write("transition", transition_ids[j], None) ]

RECURSIVE TransitionRemoves(_)
TransitionRemoves(transition_ids) ==
    IF transition_ids = << >> THEN << >>
    ELSE << Write("x_reverse_id", Head(transition_ids), None),
            Write("transition", Head(transition_ids), None) >>
         \o TransitionRemoves(Tail(transition_ids))

ExecutionRemoveOps(transaction_id, transition_ids, optional_additional_fee_id) ==
    << Write("x_id", transaction_id, None),
       Write("x_edition", transaction_id, None) >>
    \o TransitionRemoves(transition_ids)
    \o TransitionRemoves(optional_additional_fee_id)

ExecutionRemove(s, transaction_id, failStep) ==
    LET ids == MapGetConfirmed(s, "x_id", transaction_id)
    IN  IF ~IsSome(ids) THEN [ ok |-> FALSE, store |-> s ]
        ELSE RunOps(s, ExecutionRemoveOps(transaction_id, Unwrap(ids)[1], Unwrap(ids)[2]),
                    failStep)

(***************************************************************************)
(* TransactionStorage                                                      *)
(***************************************************************************)
\* The forwarded call's failing step, given the failing step of the whole.
Forwarded(failStep) == IF failStep > 1 THEN failStep - 1 ELSE 0

TransactionInsert(s, tx, failStep, failAt) ==
    IF failStep = 1 THEN [ ok |-> FALSE, store |-> s ]
    ELSE IF tx.kind = "Deploy"
         THEN DeploymentInsert(MapInsert(s, "tx_kind", tx.id, "Deploy"), tx,
                               Forwarded(failStep), failAt)
         ELSE ExecutionInsert(MapInsert(s, "tx_kind", tx.id, "Execute"), tx,
                              Forwarded(failStep))

\* A remove that forwards without removing the kind tag.
TransactionRemoveKeepsTag(s, transaction_id, failStep, failAt) ==
    LET transaction_type == MapGetConfirmed(s, "tx_kind", transaction_id)
    IN  IF ~IsSome(transaction_type) THEN [ ok |-> FALSE, store |-> s ]
        ELSE IF failStep = 1 THEN [ ok |-> FALSE, store |-> s ]
        ELSE IF Unwrap(transaction_type) = "Deploy"
             THEN DeploymentRemove(s, transaction_id, Forwarded(failStep), failAt)
             ELSE ExecutionRemove(s, transaction_id, Forwarded(failStep))

TransactionRemove(s, transaction_id, failStep, failAt) ==
    LET transaction_type == MapGetConfirmed(s, "tx_kind", transaction_id)
    IN  IF ~IsSome(transaction_type) THEN [ ok |-> FALSE, store |-> s ]
        ELSE IF failStep = 1 THEN [ ok |-> FALSE, store |-> s ]
        ELSE IF Unwrap(transaction_type) = "Deploy"
             THEN DeploymentRemove(MapRemove(s, "tx_kind", transaction_id),
                                   transaction_id, Forwarded(failStep), failAt)
             ELSE ExecutionRemove(MapRemove(s, "tx_kind", transaction_id),
                                  transaction_id, Forwarded(failStep))

(***************************************************************************)
(* Calls on the stores.  A call is one step; which of its map writes       *)
(* returns an error (failStep) and which participant's commit fails        *)
(* (failAt) are inputs.                                                    *)
(***************************************************************************)
MaxCalls == 1     \* insert and remove calls staged in one open batch

MaxFailed == 1    \* calls that return an error in one behaviour

\* The number of map writes a call makes when none fails (0 when the call
\* returns before its first write).
DeploymentInsertSteps(tx) ==
    IF tx.kind = "Deploy" /\ CheckIsOrdered(tx) THEN Len(DeploymentInsertOps(tx)) ELSE 0

ExecutionInsertSteps(tx) ==
    IF tx.kind = "Execute" THEN Len(ExecutionInsertOps(tx)) ELSE 0

DeploymentRemoveSteps(s, transaction_id) ==
    LET program_id == MapGetConfirmed(s, "id", transaction_id)
        edition == MapGetConfirmed(s, "edition", Unwrap(program_id))
        program == MapGetConfirmed(s, "program", << Unwrap(program_id), Unwrap(edition) >>)
        fee == MapGetConfirmed(s, "fee", transaction_id)
    IN  IF IsSome(program_id) /\ IsSome(edition) /\ IsSome(program) /\ IsSome(fee)
        THEN Len(DeploymentRemoveOps(transaction_id, Unwrap(program_id), Unwrap(edition),
                                     Unwrap(program), Unwrap(fee)[1]))
        ELSE 0

ExecutionRemoveSteps(s, transaction_id) ==
    LET ids == MapGetConfirmed(s, "x_id", transaction_id)
    IN  IF IsSome(ids)
        THEN Len(ExecutionRemoveOps(transaction_id, Unwrap(ids)[1], Unwrap(ids)[2]))
        ELSE 0

\* The failures offered to a call of n map writes: none, the write numbered
\* failStep returning an error, or (when every write succeeded and the call
\* commits) the commit of the participant numbered failAt failing.  None is
\* offered once MaxFailed calls have failed.
Failures(s, n, commits) ==
    { << 0, 0 >> }
    \cup { << failStep, 0 >> : failStep \in IF failed < MaxFailed THEN 1..n ELSE {} }
    \cup { << 0, failAt >> :
             failAt \in IF failed < MaxFailed /\ commits /\ ~IsAtomicInProgress(s) /\ n > 0
                        THEN 1..NumParticipants ELSE {} }

TransactionRemoveSteps(s, transaction_id) ==
    IF IsSome(MapGetConfirmed(s, "tx_kind", transaction_id))
    THEN 1 + DeploymentRemoveSteps(s, transaction_id)
           + ExecutionRemoveSteps(s, transaction_id)
    ELSE 0

\* The transactions offered to each store (an execution to the deployment
\* store and a deployment to the execution store are of the wrong kind).
\* The deployment store used with the batch methods of its caller is offered
\* one well-formed deployment; used through insert and remove alone it is
\* offered DeploymentStoreTxs.
DeploymentCallTxs == { 1, 4, 5 }

ExecutionCallTxs == { 1, 5, 6 }

TransactionCallTxs == { 1, 4, 5, 6 }

\* A behaviour has at most MaxFailed failing calls; Counted records the
\* outcome of a call.
Counted(ok) ==
    /\ ok \/ failed < MaxFailed
    /\ failed' = IF ok THEN failed ELSE failed + 1

Clean == failed = 0

\* The writes of at most MaxCalls calls are staged in the store s.
HasRoom(s) ==
    Len(s.batch["id"]) <= MaxCalls /\ Len(s.batch["transition"]) <= 2 * MaxCalls

\* How far a call of n map writes got: it returned before its first write
\* ("none"), one of its writes returned an error ("Err"), or all were made
\* ("Ok").
BodyOf(n, failStep) ==
    IF n = 0 THEN "none" ELSE IF failStep > 0 THEN "Err" ELSE "Ok"

Returned(op, arg, r, body) ==
    [ NoCall EXCEPT !.op = op, !.arg = arg, !.ok = r.ok, !.body = body,
                    !.nested = IsAtomicInProgress(store),
                    !.partial = ~r.ok /\ ~IsAtomicInProgress(store)
                                /\ \E m \in ParticipantSet : ~r.store.open[m] ]

DeployInsertOf(txs) ==
    /\ ~Halted
    /\ \E i \in txs :
         \E f \in Failures(store, DeploymentInsertSteps(Tx(i)), TRUE) :
            LET r == DeploymentInsert(store, Tx(i), f[1], f[2])
            IN  /\ HasRoom(r.store)
                /\ store' = r.store
                /\ last' = Returned("deployment_insert", i, r,
                                    BodyOf(DeploymentInsertSteps(Tx(i)), f[1]))
                /\ Counted(r.ok)
    /\ UNCHANGED frames

DeployRemoveOf(txs) ==
    /\ ~Halted
    /\ \E i \in txs :
         \E f \in Failures(store, DeploymentRemoveSteps(store, i), TRUE) :
            LET r == DeploymentRemove(store, i, f[1], f[2])
            IN  /\ HasRoom(r.store)
                /\ store' = r.store
                /\ last' = Returned("deployment_remove", i, r,
                                    BodyOf(DeploymentRemoveSteps(store, i), f[1]))
                /\ Counted(r.ok)
    /\ UNCHANGED frames

DeployInsert == DeployInsertOf(DeploymentCallTxs)

DeployRemove == DeployRemoveOf(DeploymentCallTxs)

\* The public batch methods of DeploymentStore, called by its user.
CallerStartAtomic ==
    /\ ~Halted
    /\ ~IsAtomicInProgress(store)
    /\ store' = StartAtomic(store)
    /\ last' = [ NoCall EXCEPT !.op = "start_atomic" ]
    /\ UNCHANGED <<frames, failed>>

CallerAtomicCheckpoint ==
    /\ ~Halted
    /\ IsAtomicInProgress(store)
    /\ Len(store.cps[Participants[1]]) < MaxCheckpoints
    /\ store' = AtomicCheckpoint(store)
    /\ last' = [ NoCall EXCEPT !.op = "atomic_checkpoint" ]
    /\ UNCHANGED <<frames, failed>>

CallerAtomicRewind ==
    /\ ~Halted
    /\ IsAtomicInProgress(store)
    /\ store' = AtomicRewind(store)
    /\ last' = [ NoCall EXCEPT !.op = "atomic_rewind",
                               !.arg = StagedCount(store) - StagedCount(store') ]
    /\ UNCHANGED <<frames, failed>>

CallerAbortAtomic ==
    /\ ~Halted
    /\ IsAtomicInProgress(store)
    /\ store' = AbortAtomic(store)
    /\ last' = [ NoCall EXCEPT !.op = "abort_atomic" ]
    /\ UNCHANGED <<frames, failed>>

CallerFinishAtomic ==
    /\ ~Halted
    /\ IsAtomicInProgress(store)
    /\ \E failAt \in 0..NumParticipants :
         LET r == FinishAtomic(store, failAt)
         IN  /\ store' = r.store
             /\ last' = [ NoCall EXCEPT !.op = "finish_atomic", !.ok = r.ok,
                                        !.arg = failAt, !.partial = ~r.ok ]
             /\ Counted(r.ok)
    /\ UNCHANGED frames

NextDeploy ==
    \/ DeployInsert
    \/ DeployRemove
    \/ CallerStartAtomic
    \/ CallerAtomicCheckpoint
    \/ CallerAtomicRewind
    \/ CallerAbortAtomic
    \/ CallerFinishAtomic

SpecDeploy == Init /\ [][NextDeploy]_vars

ExecInsert ==
    /\ \E i \in ExecutionCallTxs :
         \E f \in Failures(store, ExecutionInsertSteps(Tx(i)), FALSE) :
            LET r == ExecutionInsert(store, Tx(i), f[1])
            IN  /\ store' = r.store
                /\ last' = Returned("execution_insert", i, r,
                                    BodyOf(ExecutionInsertSteps(Tx(i)), f[1]))
                /\ Counted(r.ok)
    /\ UNCHANGED frames

ExecRemove ==
    /\ \E i \in ExecutionCallTxs :
         \E f \in Failures(store, ExecutionRemoveSteps(store, i), FALSE) :
            LET r == ExecutionRemove(store, i, f[1])
            IN  /\ store' = r.store
                /\ last' = Returned("execution_remove", i, r,
                                    BodyOf(ExecutionRemoveSteps(store, i), f[1]))
                /\ Counted(r.ok)
    /\ UNCHANGED frames

NextExec == ExecInsert \/ ExecRemove

SpecExec == Init /\ [][NextExec]_vars

TxInsert ==
    /\ ~Halted
    /\ \E i \in TransactionCallTxs :
         \E f \in Failures(store, 1 + DeploymentInsertSteps(Tx(i))
                                     + ExecutionInsertSteps(Tx(i)),
                            Tx(i).kind = "Deploy") :
            LET r == TransactionInsert(store, Tx(i), f[1], f[2])
            IN  /\ HasRoom(r.store)
                /\ store' = r.store
                /\ last' = Returned("transaction_insert", i, r, BodyOf(1, f[1]))
                /\ Counted(r.ok)
    /\ UNCHANGED frames

TxRemove ==
    /\ ~Halted
    /\ \E i \in TransactionCallTxs :
         \E f \in Failures(store, TransactionRemoveSteps(store, i),
                            DeploymentRemoveSteps(store, i) > 0) :
            LET r == TransactionRemove(store, i, f[1], f[2])
            IN  /\ HasRoom(r.store)
                /\ store' = r.store
                /\ last' = Returned("transaction_remove", i, r,
                                    BodyOf(TransactionRemoveSteps(store, i), f[1]))
                /\ Counted(r.ok)
    /\ UNCHANGED frames

Next == TxInsert \/ TxRemove

Spec == Init /\ [][Next]_vars

(***************************************************************************)
(* Properties of the stores.                                               *)
(***************************************************************************)
\* Every name of the sequence names has a verifying key and a certificate
\* under (program_id, name, edition).
HasKeys(db, program_id, edition, names) ==
    \A j \in 1..Len(names) :
        /\ Has(db["verifying_key"], << program_id, names[j], edition >>)
        /\ Has(db["certificate"], << program_id, names[j], edition >>)

\* The deployment linkage of the confirmed content db.
DeploymentLinkage(db) ==
    \A t \in TxIds :
        Has(db["id"], t) =>
            LET p == db["id"][t]
            IN  /\ Has(db["edition"], p)
                /\ LET e == db["edition"][p]
                   IN  /\ Get(db["reverse_id"], << p, e >>) = Some(t)
                       /\ Has(db["owner"], << p, e >>)
                       /\ Has(db["program"], << p, e >>)
                       /\ HasKeys(db, p, e, db["program"][<< p, e >>].functions)

\* C6: in every committed state reached by successful deployment insert and
\* remove calls only, every transaction t of the id map is linked: with
\* p = id[t] and e = edition[p], reverse_id[(p, e)] = t and the owner, the
\* program and the verifying key and certificate of every function of the
\* program exist under edition e.
C6_DeploymentLinkageHolds ==
    (Clean /\ ~IsAtomicInProgress(store)) => DeploymentLinkage(store.db)

\* Each transition ID of the sequence ids maps to t in exec.reverse_id and is
\* in the transition store.
LinkedTo(db, t, ids) ==
    \A j \in 1..Len(ids) :
        /\ Get(db["x_reverse_id"], ids[j]) = Some(t)
        /\ Has(db["transition"], ids[j])

\* The execution linkage of the confirmed content db.
ExecutionLinkage(db) ==
    \A t \in TxIds :
        Has(db["x_id"], t) =>
            /\ LinkedTo(db, t, db["x_id"][t][1])
            /\ LinkedTo(db, t, db["x_id"][t][2])
            /\ Has(db["x_edition"], t)

\* C9: in every committed state reached by successful execution insert and
\* remove calls only, every stored transaction t is linked: each transition
\* ID of exec.id[t] and the optional fee transition ID map to t in
\* exec.reverse_id and are in the transition store, and exec.edition[t]
\* exists.
C9_ExecutionLinkageHolds == Clean => ExecutionLinkage(store.db)

\* The kinds of the confirmed content db agree with the two id maps.
KindConsistent(db) ==
    \A t \in TxIds :
        /\ (Get(db["tx_kind"], t) = Some("Deploy")) <=> Has(db["id"], t)
        /\ (Get(db["tx_kind"], t) = Some("Execute")) <=> Has(db["x_id"], t)
        /\ ~(Has(db["id"], t) /\ Has(db["x_id"], t))

\* C7: in every committed state reached by successful TransactionStorage
\* insert and remove calls only, tx_kind[t] = Deploy exactly when the
\* deployment id map has t, tx_kind[t] = Execute exactly when the execution
\* id map has t, and no t is in both id maps.
C7_KindConsistent == Clean => KindConsistent(store.db)

\* A deployment and an execution are stored and a transaction has just been
\* removed, every call having succeeded.
C7_Witness ==
    /\ Clean
    /\ last.op = "transaction_remove"
    /\ \E t \in TxIds : Get(store.db["tx_kind"], t) = Some("Deploy")
    /\ \E t \in TxIds : Get(store.db["tx_kind"], t) = Some("Execute")
    /\ ~Has(store.db["tx_kind"], last.arg)

\* C8: a TransactionStorage insert that returns an error leaves no kind tag
\* for a transaction that had none, and a TransactionStorage remove that
\* returns an error leaves the kind tag of the transaction in place.
C8_KindTagAllOrNothing ==
    [][ /\ (last'.op = "transaction_insert" /\ ~last'.ok
              /\ ~Has(store.db["tx_kind"], last'.arg))
            => ~Has(store'.db["tx_kind"], last'.arg)
        /\ (last'.op = "transaction_remove" /\ ~last'.ok
              /\ Has(store.db["tx_kind"], last'.arg))
            => Has(store'.db["tx_kind"], last'.arg) ]_vars

\* No id, edition or reverse_id entry and no transition of tx is in db.
NoTrace(db, tx) ==
    /\ ~Has(db["x_id"], tx.id)
    /\ ~Has(db["x_edition"], tx.id)
    /\ \A j \in 1..Len(tx.transitions \o tx.fee) :
          /\ ~Has(db["x_reverse_id"], (tx.transitions \o tx.fee)[j])
          /\ ~Has(db["transition"], (tx.transitions \o tx.fee)[j])

\* Every entry of tx is in db.
FullyPresent(db, tx) ==
    /\ Get(db["x_id"], tx.id) = Some(<< tx.transitions, tx.fee >>)
    /\ Has(db["x_edition"], tx.id)
    /\ LinkedTo(db, tx.id, tx.transitions \o tx.fee)

\* C10: an execution insert outside any batch that returns an error leaves
\* no entry of a transaction that had none, and an execution remove that
\* returns an error leaves a fully present transaction fully present.
C10_ExecutionAllOrNothing ==
    [][ /\ (last'.op = "execution_insert" /\ ~last'.ok
              /\ NoTrace(store.db, Tx(last'.arg)))
            => NoTrace(store'.db, Tx(last'.arg))
        /\ (last'.op = "execution_remove" /\ ~last'.ok
              /\ FullyPresent(store.db, Tx(last'.arg)))
            => FullyPresent(store'.db, Tx(last'.arg)) ]_vars

\* C11: a deployment insert or remove one of whose staging steps returns an
\* error leaves the confirmed content of the nine maps and of the
\* transition store as it was before the call and leaves staged exactly
\* what was staged before the call, whether the call opened the batch or
\* ran nested in an open one.
C11_FailedStagingRestores ==
    [][ (last'.op \in { "deployment_insert", "deployment_remove" }
           /\ last'.body = "Err")
        => (SameConfirmed(store, store') /\ SameStaged(store, store')) ]_vars

\* A deployment insert has failed at a staging step while nested in a batch
\* that holds the staged writes of an earlier call.
C11_Witness ==
    /\ last.op = "deployment_insert"
    /\ last.body = "Err"
    /\ last.nested
    /\ store.batch["id"] # << >>
    /\ store.batch["transition"] # << >>

(***************************************************************************)
(* Reads.  A Result<Option<T>> is [ok, value]: Ok(None), Ok(Some(v)) or    *)
(* Bail (an error).  Every read is of the confirmed content.               *)
(***************************************************************************)
Ok(v) == [ ok |-> TRUE, value |-> v ]

Bail == [ ok |-> FALSE, value |-> None ]

GetProgramID(s, transaction_id) == Ok(MapGetConfirmed(s, "id", transaction_id))

GetEdition(s, program_id) == Ok(MapGetConfirmed(s, "edition", program_id))

\* TransitionStore::get_transition.
GetTransition(s, transition_id) == Ok(MapGetConfirmed(s, "transition", transition_id))

\* The (function name, verifying key, certificate) triples of the sequence
\* names read under (program_id, name, edition); None if one is missing.
RECURSIVE GetVerifyingKeys(_, _, _, _)
GetVerifyingKeys(s, program_id, edition, names) ==
    IF names = << >> THEN Some(<< >>)
    ELSE LET key == << program_id, Head(names), edition >>
             verifying_key == MapGetConfirmed(s, "verifying_key", key)
             certificate == MapGetConfirmed(s, "certificate", key)
             rest == GetVerifyingKeys(s, program_id, edition, Tail(names))
         IN  IF ~IsSome(verifying_key) \/ ~IsSome(certificate) \/ ~IsSome(rest)
             THEN None
             ELSE Some(<< << Head(names), Unwrap(verifying_key), Unwrap(certificate) >> >>
                       \o Unwrap(rest))

GetDeployment(s, transaction_id) ==
    LET program_id == GetProgramID(s, transaction_id).value
        edition == GetEdition(s, Unwrap(program_id)).value
        program == MapGetConfirmed(s, "program", << Unwrap(program_id), Unwrap(edition) >>)
        verifying_keys == GetVerifyingKeys(s, Unwrap(program_id), Unwrap(edition),
                                           Unwrap(program).functions)
    IN  IF ~IsSome(program_id) THEN Ok(None)
        ELSE IF ~IsSome(edition) THEN Bail
        ELSE IF ~IsSome(program) THEN Bail
        ELSE IF ~IsSome(verifying_keys) THEN Bail
        ELSE Ok(Some([ edition |-> Unwrap(edition), program |-> Unwrap(program),
                       verifying_keys |-> Unwrap(verifying_keys) ]))

\* Mutant: a get_fee that answers Ok(None) when the fee transition is
\* missing.
GetFeeLenient(s, transaction_id) ==
    LET fee == MapGetConfirmed(s, "fee", transaction_id)
        transition == GetTransition(s, Unwrap(fee)[1]).value
    IN  IF ~IsSome(fee) THEN Ok(None)
        ELSE IF ~IsSome(transition) THEN Ok(None)
        ELSE Ok(Some(<< Unwrap(transition), Unwrap(fee)[2], Unwrap(fee)[3] >>))

GetFee(s, transaction_id) ==
    LET fee == MapGetConfirmed(s, "fee", transaction_id)
        transition == GetTransition(s, Unwrap(fee)[1]).value
    IN  IF ~IsSome(fee) THEN Ok(None)
        ELSE IF ~IsSome(transition) THEN Bail
        ELSE Ok(Some(<< Unwrap(transition), Unwrap(fee)[2], Unwrap(fee)[3] >>))

GetOwner(s, program_id) ==
    LET edition == GetEdition(s, program_id).value
        owner == MapGetConfirmed(s, "owner", << program_id, Unwrap(edition) >>)
    IN  IF ~IsSome(edition) THEN Ok(None)
        ELSE IF ~IsSome(owner) THEN Bail
        ELSE Ok(owner)

\* The deployment and the fee that the transaction tx is made of.
DeploymentOf(tx) ==
    [ edition |-> tx.edition, program |-> ProgramOf(tx),
      verifying_keys |-> [ j \in 1..Len(tx.verifying_keys) |->
                             << tx.verifying_keys[j],
                                VerifyingKeyOf(tx, tx.verifying_keys[j]),
                                CertificateOf(tx, tx.verifying_keys[j]) >> ] ]

FeeOf(tx) ==
    << TransitionOf(FeeEntryOf(tx)[1]), FeeEntryOf(tx)[2], FeeEntryOf(tx)[3] >>

\* Transaction::from_deployment: the transaction ID is the hash of the
\* content, so it is the ID of the transaction made of this content (0 when
\* the content is that of no transaction).
FromDeployment(owner, deployment, fee) ==
    LET made == { i \in TxIds : /\ Tx(i).kind = "Deploy"
                                /\ Tx(i).owner = owner
                                /\ DeploymentOf(Tx(i)) = deployment
                                /\ FeeOf(Tx(i)) = fee }
        names == [ j \in 1..Len(deployment.verifying_keys) |->
                     deployment.verifying_keys[j][1] ]
    IN  Deploy(IF made = {} THEN 0 ELSE CHOOSE i \in made : TRUE,
               owner, deployment.program.id, deployment.edition,
               deployment.program.functions, names, TransitionID(fee[1]))

\* Mutant: a get_transaction that returns the constructed transaction
\* without comparing its ID.
DeploymentGetTransactionUnchecked(s, transaction_id) ==
    LET deployment == GetDeployment(s, transaction_id)
        fee == GetFee(s, transaction_id)
        owner == GetOwner(s, Unwrap(deployment.value).program.id)
    IN  IF ~deployment.ok THEN Bail
        ELSE IF ~IsSome(deployment.value) THEN Ok(None)
        ELSE IF ~fee.ok \/ ~IsSome(fee.value) THEN Bail
        ELSE IF ~owner.ok \/ ~IsSome(owner.value) THEN Bail
        ELSE Ok(Some(FromDeployment(Unwrap(owner.value), Unwrap(deployment.value),
                                    Unwrap(fee.value))))

DeploymentGetTransaction(s, transaction_id) ==
    LET deployment == GetDeployment(s, transaction_id)
        fee == GetFee(s, transaction_id)
        owner == GetOwner(s, Unwrap(deployment.value).program.id)
        deployment_transaction ==
            FromDeployment(Unwrap(owner.value), Unwrap(deployment.value), Unwrap(fee.value))
    IN  IF ~deployment.ok THEN Bail
        ELSE IF ~IsSome(deployment.value) THEN Ok(None)
        ELSE IF ~fee.ok \/ ~IsSome(fee.value) THEN Bail
        ELSE IF ~owner.ok \/ ~IsSome(owner.value) THEN Bail
        ELSE IF transaction_id = deployment_transaction.id
             THEN Ok(Some(deployment_transaction))
             ELSE Bail

\* The transactions offered to the insert and remove calls alone: the
\* deployment of a second program that pays with the fee transition of
\* transaction 1 is among them.
DeploymentStoreTxs == { 1, 2, 3, 5 }

StoreInsert == DeployInsertOf(DeploymentStoreTxs)

StoreRemove == DeployRemoveOf(DeploymentStoreTxs)

\* The deployment store used through insert and remove only.
NextDeployCalls == StoreInsert \/ StoreRemove

SpecDeployCalls == Init /\ [][NextDeployCalls]_vars

\* C12: for a deployment transaction tx that the store does not contain
\* (get_transaction(tx.id) is Ok(None)), after a successful insert(tx)
\* get_transaction(tx.id) is Ok(Some(tx)), and after a successful
\* remove(tx.id) it is Ok(None).
C12_DeploymentRoundTrip ==
    [][ /\ (last'.op = "deployment_insert" /\ last'.ok
              /\ DeploymentGetTransaction(store, last'.arg) = Ok(None))
            => DeploymentGetTransaction(store', last'.arg) = Ok(Some(Tx(last'.arg)))
        /\ (last'.op = "deployment_remove" /\ last'.ok)
            => DeploymentGetTransaction(store', last'.arg) = Ok(None) ]_vars

\* The transitions with the IDs of the sequence transition_ids, in that
\* order; None if one is missing.
RECURSIVE GetTransitions(_, _)
GetTransitions(s, transition_ids) ==
    IF transition_ids = << >> THEN Some(<< >>)
    ELSE LET transition == GetTransition(s, Head(transition_ids)).value
             rest == GetTransitions(s, Tail(transition_ids))
         IN  IF ~IsSome(transition) \/ ~IsSome(rest) THEN None
             ELSE Some(<< Unwrap(transition) >> \o Unwrap(rest))

\* Transaction::from_execution: the transaction ID is the hash of the
\* content (0 when the content is that of no transaction).
FromExecution(edition, transitions, optional_additional_fee) ==
    LET ids == [ j \in 1..Len(transitions) |-> TransitionID(transitions[j]) ]
        fee == [ j \in 1..Len(optional_additional_fee) |->
                   TransitionID(optional_additional_fee[j]) ]
        made == { i \in TxIds : /\ Tx(i).kind = "Execute"
                                /\ Tx(i).edition = edition
                                /\ Tx(i).transitions = ids
                                /\ Tx(i).fee = fee }
    IN  Execute(IF made = {} THEN 0 ELSE CHOOSE i \in made : TRUE, edition, ids, fee)

ExecutionGetTransaction(s, transaction_id) ==
    LET edition == MapGetConfirmed(s, "x_edition", transaction_id)
        ids == MapGetConfirmed(s, "x_id", transaction_id)
        transitions == GetTransitions(s, Unwrap(ids)[1])
        additional_fee == GetTransitions(s, Unwrap(ids)[2])
        transaction == FromExecution(Unwrap(edition), Unwrap(transitions),
                                     Unwrap(additional_fee))
    IN  IF ~IsSome(edition) THEN Ok(None)
        ELSE IF ~IsSome(ids) THEN Bail
        ELSE IF ~IsSome(transitions) THEN Bail
        ELSE IF ~IsSome(additional_fee) THEN Bail
        ELSE IF transaction_id = transaction.id THEN Ok(Some(transaction))
        ELSE Bail

\* C13: for an execution transaction tx that the execution store does not
\* contain (get_transaction(tx.id) is Ok(None)), after a successful
\* insert(tx) get_transaction(tx.id) is Ok(Some(tx)), with the transitions
\* in the order of the execution and the optional fee transition, and after
\* a successful remove(tx.id) it is Ok(None).
C13_ExecutionRoundTrip ==
    [][ /\ (last'.op = "execution_insert" /\ last'.ok
              /\ ExecutionGetTransaction(store, last'.arg) = Ok(None))
            => ExecutionGetTransaction(store', last'.arg) = Ok(Some(Tx(last'.arg)))
        /\ (last'.op = "execution_remove" /\ last'.ok)
            => ExecutionGetTransaction(store', last'.arg) = Ok(None) ]_vars

\* An execution has just been inserted, and the execution of two
\* transitions and the execution with a fee transition are both read back.
C13_Witness ==
    /\ last.op = "execution_insert"
    /\ last.ok
    /\ ExecutionGetTransaction(store, 5) = Ok(Some(Tx(5)))
    /\ ExecutionGetTransaction(store, 6) = Ok(Some(Tx(6)))

FindTransactionIDFromProgramID(s, program_id) ==
    LET edition == GetEdition(s, program_id).value
        transaction_id ==
            MapGetConfirmed(s, "reverse_id", << program_id, Unwrap(edition) >>)
    IN  IF ~IsSome(edition) THEN Ok(None)
        ELSE IF IsSome(transaction_id) THEN Ok(transaction_id)
        ELSE Bail

FindTransactionIDFromTransitionID(s, transition_id) ==
    Ok(MapGetConfirmed(s, "reverse_fee", transition_id))

\* C14: for a deployment transaction tx of program p,
\* find_transaction_id_from_program_id(p) is Some(tx.id) after a successful
\* insert(tx) made while p was not deployed (the search returned Ok(None)),
\* and Ok(None) after a successful remove(tx.id) of the transaction the
\* search returned.
C14_FindFromProgramID ==
    [][ LET tx == Tx(last'.arg)
            before == FindTransactionIDFromProgramID(store, tx.program_id)
            after == FindTransactionIDFromProgramID(store', tx.program_id)
        IN  /\ (last'.op = "deployment_insert" /\ last'.ok /\ before = Ok(None))
                => after = Ok(Some(tx.id))
            /\ (last'.op = "deployment_remove" /\ last'.ok
                  /\ before = Ok(Some(tx.id)))
                => after = Ok(None) ]_vars

ExecutionFindTransactionID(s, transition_id) ==
    Ok(MapGetConfirmed(s, "x_reverse_id", transition_id))

\* The transition IDs of an execution transaction, the fee transition ID
\* included when there is one.
TransitionIDsOf(tx) == { tx.transitions[j] : j \in 1..Len(tx.transitions) }
                       \cup { tx.fee[j] : j \in 1..Len(tx.fee) }

\* C15: in every insert/remove cycle of an execution transaction tx, after a
\* successful insert(tx) find_transaction_id returns Some(tx.id) for every
\* transition ID of the execution and for the fee transition ID, and after a
\* successful remove(tx.id) it returns Ok(None) for each of them.
C15_ExecutionFindCycles ==
    [][ LET tx == Tx(last'.arg)
        IN  /\ (last'.op = "execution_insert" /\ last'.ok)
                => \A tid \in TransitionIDsOf(tx) :
                      ExecutionFindTransactionID(store', tid) = Ok(Some(tx.id))
            /\ (last'.op = "execution_remove" /\ last'.ok)
                => \A tid \in TransitionIDsOf(tx) :
                      ExecutionFindTransactionID(store', tid) = Ok(None) ]_vars

\* The execution with a fee transition has just been removed after an
\* insert: none of its entries is left, and its transitions are not found.
C15_Witness ==
    /\ last.op = "execution_remove"
    /\ last.ok
    /\ last.arg = 6
    /\ \A tid \in TransitionIDsOf(Tx(6)) :
          ExecutionFindTransactionID(store, tid) = Ok(None)

\* TransactionStorage::get_transaction.
TransactionGetTransaction(s, transaction_id) ==
    LET transaction_type == MapGetConfirmed(s, "tx_kind", transaction_id)
    IN  IF ~IsSome(transaction_type) THEN Bail
        ELSE IF Unwrap(transaction_type) = "Deploy"
             THEN DeploymentGetTransaction(s, transaction_id)
             ELSE ExecutionGetTransaction(s, transaction_id)

\* C16: get_transaction(id) of the TransactionStore returns Ok(None), not an
\* error, for every ID while no transaction has been inserted yet, and for an
\* ID whose transaction has just been removed successfully.
C16_AbsentIsOkNone ==
    /\ \A id \in TxIds : TransactionGetTransaction(store, id) = Ok(None)
    /\ [][ (last'.op = "transaction_remove" /\ last'.ok)
             => TransactionGetTransaction(store', last'.arg) = Ok(None) ]_vars

\* The fee linkage of the confirmed content db.
FeeLinkage(db) ==
    \A t \in TxIds :
        Has(db["fee"], t) =>
            LET tid == db["fee"][t][1]
            IN  /\ Get(db["reverse_fee"], tid) = Some(t)
                /\ Has(db["transition"], tid)

\* C17: in every committed state reached by successful deployment insert and
\* remove calls only, every transaction t with fee[t] = (tid, _, _) has
\* reverse_fee[tid] = t, and the transition store contains tid.
C17_FeeLinkageHolds ==
    (Clean /\ ~IsAtomicInProgress(store)) => FeeLinkage(store.db)

\* The entries that insert(t) wrote under the program of t are the same in
\* the confirmed contents db and db2: the edition entry of the program and,
\* for every key (p, e) whose reverse_id entry is t, the reverse_id, owner
\* and program entries.
SameEntriesOf(db, db2, t) ==
    LET p == db["id"][t]
    IN  /\ Has(db["edition"], p) => Get(db2["edition"], p) = Get(db["edition"], p)
        /\ \A k \in DOMAIN db["reverse_id"] :
              (k[1] = p /\ db["reverse_id"][k] = t)
                => /\ Get(db2["reverse_id"], k) = Some(t)
                   /\ Get(db2["owner"], k) = Get(db["owner"], k)
                   /\ Get(db2["program"], k) = Get(db["program"], k)

\* C18: a successful insert of a deployment transaction leaves the entries
\* of every other stored transaction t1 as they were: the edition entry of
\* the program of t1 and the reverse_id, owner and program entries under the
\* key (p, e) of t1 keep their values.
C18_NeverMutatedInPlace ==
    [][ (last'.op = "deployment_insert" /\ last'.ok)
          => \A t1 \in TxIds \ { last'.arg } :
                Has(store.db["id"], t1) => SameEntriesOf(store.db, store'.db, t1) ]_vars

\* C19: when the finish_atomic of the schema fails at the participant
\* numbered failAt of the declared order, exactly the participants before it
\* have their staged writes in the confirmed state and have ended their
\* batch, and the failing participant and every later one show none of their
\* staged writes, which stay staged.
C19_CommitStopsAtFirstFailure ==
    [][ (last'.op = "finish_atomic" /\ ~last'.ok)
          => \A i \in 1..NumParticipants :
                LET m == Participants[i]
                IN  IF i < last'.arg
                    THEN /\ store'.db[m] = ApplyBatch(store.db[m], store.batch[m])
                         /\ store'.batch[m] = << >>
                         /\ ~store'.open[m]
                    ELSE /\ store'.db[m] = store.db[m]
                         /\ store'.batch[m] = store.batch[m]
                         /\ store'.open[m] ]_vars

\* finish_atomic has failed at the third participant with an insert staged:
\* the id and edition entries are confirmed, and the writes of reverse_id and
\* of the transition store are still staged.
C19_Witness ==
    /\ last.op = "finish_atomic"
    /\ ~last.ok
    /\ last.arg = 3
    /\ store.db["id"] # EmptyMap
    /\ store.db["edition"] # EmptyMap
    /\ store.db["reverse_id"] = EmptyMap
    /\ store.batch["reverse_id"] # << >>
    /\ store.batch["transition"] # << >>

(***************************************************************************)
(* A single map used directly through the Map trait (specification         *)
(* SpecMap).                                                               *)
(***************************************************************************)
\* The map that is used, its keys (A is 1, B is 2) and the value written
\* under a key.
SingleMap == "id"

MapKeys == { 1, 2 }

ValueOf(k) == << "value", k >>

\* The values that insert is called with.
MapValues == { ValueOf(k) : k \in MapKeys }

MapCallStartAtomic ==
    /\ ~store.open[SingleMap]
    /\ store' = MapStartAtomic(store, SingleMap)
    /\ last' = [ NoCall EXCEPT !.op = "map_start_atomic" ]
    /\ UNCHANGED <<frames, failed>>

MapCallInsert ==
    /\ Len(store.batch[SingleMap]) < MaxStaged
    /\ \E k \in MapKeys, v \in MapValues :
         /\ store' = MapInsert(store, SingleMap, k, v)
         /\ last' = [ NoCall EXCEPT !.op = "map_insert", !.arg = k ]
    /\ UNCHANGED <<frames, failed>>

MapCallRemove ==
    /\ Len(store.batch[SingleMap]) < MaxStaged
    /\ \E k \in MapKeys :
         /\ store' = MapRemove(store, SingleMap, k)
         /\ last' = [ NoCall EXCEPT !.op = "map_remove", !.arg = k ]
    /\ UNCHANGED <<frames, failed>>

MapCallAtomicCheckpoint ==
    /\ store.open[SingleMap]
    /\ Len(store.cps[SingleMap]) < MaxCheckpoints
    /\ store' = MapAtomicCheckpoint(store, SingleMap)
    /\ last' = [ NoCall EXCEPT !.op = "map_atomic_checkpoint" ]
    /\ UNCHANGED <<frames, failed>>

\* last.arg is the number of staged writes that the rewind discarded.
MapCallAtomicRewind ==
    /\ store.open[SingleMap]
    /\ store' = MapAtomicRewind(store, SingleMap)
    /\ last' = [ NoCall EXCEPT !.op = "map_atomic_rewind",
                               !.arg = Len(store.batch[SingleMap])
                                       - Len(store'.batch[SingleMap]) ]
    /\ UNCHANGED <<frames, failed>>

\* last.arg is the number of staged writes and last.depth the number of
\* checkpoints that the batch held when abort_atomic or finish_atomic was
\* called.
MapCallAbortAtomic ==
    /\ store.open[SingleMap]
    /\ store' = MapAbortAtomic(store, SingleMap)
    /\ last' = [ NoCall EXCEPT !.op = "map_abort_atomic",
                               !.arg = Len(store.batch[SingleMap]),
                               !.depth = Len(store.cps[SingleMap]) ]
    /\ UNCHANGED <<frames, failed>>

MapCallFinishAtomic ==
    /\ store.open[SingleMap]
    /\ store' = MapFinishAtomic(store, SingleMap)
    /\ last' = [ NoCall EXCEPT !.op = "map_finish_atomic",
                               !.arg = Len(store.batch[SingleMap]),
                               !.depth = Len(store.cps[SingleMap]) ]
    /\ UNCHANGED <<frames, failed>>

NextMap ==
    \/ MapCallStartAtomic
    \/ MapCallInsert
    \/ MapCallRemove
    \/ MapCallAtomicCheckpoint
    \/ MapCallAtomicRewind
    \/ MapCallAbortAtomic
    \/ MapCallFinishAtomic

SpecMap == Init /\ [][NextMap]_vars

\* The store after start_atomic; insert A; atomic_checkpoint; insert B;
\* atomic_rewind; finish_atomic on the map m of the store s.
CheckpointRewindRun(s, m) ==
    LET s1 == MapStartAtomic(s, m)
        s2 == MapInsert(s1, m, 1, ValueOf(1))
        s3 == MapAtomicCheckpoint(s2, m)
        s4 == MapInsert(s3, m, 2, ValueOf(2))
        s5 == MapAtomicRewind(s4, m)
    IN  MapFinishAtomic(s5, m)

\* C20: an atomic_rewind discards exactly the writes staged after the most
\* recent checkpoint (all of them when there is no checkpoint), pops that
\* checkpoint only and leaves the confirmed content and the batch open; and
\* from every state with no batch in progress, start_atomic; insert A;
\* atomic_checkpoint; insert B; atomic_rewind; finish_atomic adds A and not B
\* to the confirmed content.
C20_RewindToLastCheckpoint ==
    [][ /\ last'.op = "map_atomic_rewind"
            => LET cps == store.cps[SingleMap]
                   kept == IF cps = << >> THEN 0 ELSE cps[Len(cps)]
               IN  /\ store'.batch[SingleMap] = SubSeq(store.batch[SingleMap], 1, kept)
                   /\ store'.cps[SingleMap] = SubSeq(cps, 1, Len(cps) - 1)
                   /\ store'.db = store.db
                   /\ store'.open[SingleMap]
        /\ ~store'.open[SingleMap]
            => CheckpointRewindRun(store', SingleMap).db[SingleMap]
                 = Put(store'.db[SingleMap], 1, ValueOf(1)) ]_vars

\* A rewind has discarded a staged write and popped the inner of two
\* checkpoints: the outer checkpoint and the write before it are left.
C20_Witness ==
    /\ last.op = "map_atomic_rewind"
    /\ last.arg > 0
    /\ store.cps[SingleMap] # << >>
    /\ store.batch[SingleMap] # << >>

(***************************************************************************)
(* MapRead: the pending and the speculative view of a map.                 *)
(***************************************************************************)
\* The positions of the staged operations on the key k, in insertion order.
StagedOn(ops, k) == { j \in 1..Len(ops) : ops[j].key = k }

\* get_pending: None if the batch does not touch k, else Some of what the
\* last staged operation on k wrote (Some(v) for an insert, None for a
\* removal).
MapGetPending(s, m, k) ==
    LET on == StagedOn(s.batch[m], k)
    IN  IF on = {} THEN None
        ELSE Some(s.batch[m][CHOOSE j \in on : \A i \in on : i <= j].value)

\* get_confirmed as a Result: the read of the backend fails when fails.
MapGetConfirmedResult(s, m, k, fails) ==
    IF fails THEN Bail ELSE Ok(MapGetConfirmed(s, m, k))

\* Mutant: a speculative read that prefers the confirmed value.
MapGetSpeculativeConfirmedFirst(s, m, k, fails) ==
    LET map_value == MapGetConfirmedResult(s, m, k, fails)
        atomic_batch_value == MapGetPending(s, m, k)
    IN  IF ~map_value.ok THEN map_value
        ELSE IF IsSome(map_value.value) THEN map_value
        ELSE IF IsSome(atomic_batch_value) THEN Ok(Unwrap(atomic_batch_value))
        ELSE Ok(None)

\* Mutant: a speculative read that does not look at the batch.
MapGetSpeculativeIgnoresBatch(s, m, k, fails) ==
    MapGetConfirmedResult(s, m, k, fails)

MapGetSpeculative(s, m, k, fails) ==
    LET map_value == MapGetConfirmedResult(s, m, k, fails)
        atomic_batch_value == MapGetPending(s, m, k)
    IN  IF ~map_value.ok THEN map_value
        ELSE IF IsSome(atomic_batch_value) THEN Ok(Unwrap(atomic_batch_value))
        ELSE map_value

\* C21: while a batch is open whose last staged operation on a key k absent
\* from the confirmed state is insert(k, v), get_speculative(k) is Some(v)
\* and get_confirmed(k) is None; a finish_atomic taken from there leaves
\* both reads Some(v), and an abort_atomic leaves both None.
C21_SpeculativeView ==
    [][ \A k \in MapKeys, v \in MapValues :
          ( /\ store.open[SingleMap]
            /\ MapGetPending(store, SingleMap, k) = Some(Some(v))
            /\ MapGetConfirmed(store, SingleMap, k) = None )
          => /\ MapGetSpeculative(store, SingleMap, k, FALSE) = Ok(Some(v))
             /\ last'.op = "map_finish_atomic"
                  => /\ MapGetSpeculative(store', SingleMap, k, FALSE) = Ok(Some(v))
                     /\ MapGetConfirmed(store', SingleMap, k) = Some(v)
             /\ last'.op = "map_abort_atomic"
                  => /\ MapGetSpeculative(store', SingleMap, k, FALSE) = Ok(None)
                     /\ MapGetConfirmed(store', SingleMap, k) = None ]_vars

\* A batch is open with an insert staged on a key that the confirmed state
\* does not hold: the speculative read sees the value, the confirmed read
\* does not.
C21_Witness ==
    /\ store.open[SingleMap]
    /\ MapGetPending(store, SingleMap, 1) = Some(Some(ValueOf(1)))
    /\ MapGetConfirmed(store, SingleMap, 1) = None
    /\ MapGetSpeculative(store, SingleMap, 1, FALSE) = Ok(Some(ValueOf(1)))

\* The result of start_atomic; insert(tx); atomic_rewind; finish_atomic on
\* the deployment store s, every call succeeding.
RewoundInsertRun(s, tx) ==
    LET inserted == DeploymentInsert(StartAtomic(s), tx, 0, 0)
        finished == FinishAtomic(AtomicRewind(inserted.store), 0)
    IN  [ ok |-> inserted.ok /\ finished.ok, store |-> finished.store ]

\* The deployments that insert accepts.
OrderedDeployments ==
    { i \in TxIds : Tx(i).kind = "Deploy" /\ CheckIsOrdered(Tx(i)) }

\* C22: an atomic_rewind of the caller that follows a successful insert made
\* first in the caller's batch (the only checkpoint is the one the scope of
\* the insert left, at the start of the batch) leaves nothing staged and no
\* checkpoint; and from every state with no batch in progress, start_atomic;
\* insert(D); atomic_rewind; finish_atomic succeeds and leaves the confirmed
\* state of the nine maps and the transition store as it was and no batch
\* in progress, so on the fresh store get_transaction(D.id) is Ok(None) and
\* every map is empty.
C22_RewindUndoesInsert ==
    [][ /\ ( /\ last.op = "deployment_insert" /\ last.ok /\ last.nested
             /\ \A m \in ParticipantSet : store.cps[m] = << 0 >>
             /\ last'.op = "atomic_rewind" )
            => /\ StagedCount(store') = 0
               /\ \A m \in ParticipantSet : store'.cps[m] = << >>
               /\ SameConfirmed(store, store')
        /\ \A i \in OrderedDeployments :
             ~IsAtomicInProgress(store)
               => LET r == RewoundInsertRun(store, Tx(i))
                  IN  /\ r.ok
                      /\ SameConfirmed(r.store, store)
                      /\ Idle(r.store)
                      /\ store = InitStore
                           => /\ DeploymentGetTransaction(r.store, i) = Ok(None)
                              /\ \A m \in ParticipantSet : r.store.db[m] = EmptyMap
      ]_vars

\* On the store that holds nothing, the caller's atomic_rewind has just
\* discarded the writes of an insert, leaving nothing staged and no checkpoint.
C22_Witness ==
    /\ last.op = "atomic_rewind"
    /\ last.arg > 0
    /\ StagedCount(store) = 0
    /\ IsAtomicInProgress(store)
    /\ \A m \in ParticipantSet : store.cps[m] = << >> /\ store.db[m] = EmptyMap

\* insert(tx) followed by remove(tx.id), with no call failing.
InsertRemoveRun(s, tx) ==
    LET inserted == DeploymentInsert(s, tx, 0, 0)
        removed == DeploymentRemove(inserted.store, tx.id, 0, 0)
    IN  [ ok |-> inserted.ok /\ removed.ok, store |-> removed.store ]

\* C23: on a store with no batch in progress that does not hold the ordered
\* deployment D, insert(D) followed by remove(D.id) succeeds and leaves each
\* of the nine maps and the transition store with the content it had before
\* the insert.
C23_RemoveUndoesInsert ==
    \A i \in OrderedDeployments :
       (Idle(store) /\ ~Has(store.db["id"], i))
         => LET r == InsertRemoveRun(store, Tx(i))
            IN  r.ok /\ SameConfirmed(r.store, store)

\* The two deployments of the same program, offered to insert and remove of
\* the deployment store, beside an execution store to which the execution
\* with a fee transition is written and removed while no batch is in
\* progress.
SameProgramTxs == { 1, 2 }

SameProgramInsert == DeployInsertOf(SameProgramTxs)

SameProgramRemove == DeployRemoveOf(SameProgramTxs)

BesideExecutionInsert ==
    /\ ~Halted
    /\ ~IsAtomicInProgress(store)
    /\ LET r == ExecutionInsert(store, Tx(6), 0)
       IN  /\ store' = r.store
           /\ last' = Returned("execution_insert", 6, r, "Ok")
    /\ UNCHANGED <<frames, failed>>

BesideExecutionRemove ==
    /\ ~Halted
    /\ ~IsAtomicInProgress(store)
    /\ LET r == ExecutionRemove(store, 6, 0)
       IN  /\ store' = r.store
           /\ last' = Returned("execution_remove", 6, r,
                               BodyOf(ExecutionRemoveSteps(store, 6), 0))
    /\ UNCHANGED <<frames, failed>>

NextSameProgram ==
    \/ SameProgramInsert
    \/ SameProgramRemove
    \/ BesideExecutionInsert
    \/ BesideExecutionRemove

SpecSameProgram == Init /\ [][NextSameProgram]_vars

\* The ID of the transaction that get_transaction constructs for
\* transaction_id from the maps of the deployment store; None when a part
\* of it is missing.
ConstructedDeploymentID(s, transaction_id) ==
    LET deployment == GetDeployment(s, transaction_id)
        fee == GetFee(s, transaction_id)
        owner == GetOwner(s, Unwrap(deployment.value).program.id)
    IN  IF ~deployment.ok \/ ~IsSome(deployment.value) THEN None
        ELSE IF ~fee.ok \/ ~IsSome(fee.value) THEN None
        ELSE IF ~owner.ok \/ ~IsSome(owner.value) THEN None
        ELSE Some(FromDeployment(Unwrap(owner.value), Unwrap(deployment.value),
                                 Unwrap(fee.value)).id)

\* The same for the execution store.
ConstructedExecutionID(s, transaction_id) ==
    LET edition == MapGetConfirmed(s, "x_edition", transaction_id)
        ids == MapGetConfirmed(s, "x_id", transaction_id)
        transitions == GetTransitions(s, Unwrap(ids)[1])
        additional_fee == GetTransitions(s, Unwrap(ids)[2])
    IN  IF ~IsSome(edition) \/ ~IsSome(ids) THEN None
        ELSE IF ~IsSome(transitions) \/ ~IsSome(additional_fee) THEN None
        ELSE Some(FromExecution(Unwrap(edition), Unwrap(transitions),
                                Unwrap(additional_fee)).id)

\* C24: for every transaction ID t, a transaction that get_transaction(t)
\* of the deployment store or of the execution store returns has the ID t,
\* and when the transaction constructed from the maps has another ID the
\* call returns an error.
C24_ReturnedIDMatches ==
    \A t \in TxIds :
       /\ LET r == DeploymentGetTransaction(store, t)
              id == ConstructedDeploymentID(store, t)
          IN  /\ (r.ok /\ IsSome(r.value)) => Unwrap(r.value).id = t
              /\ (IsSome(id) /\ Unwrap(id) # t) => ~r.ok
       /\ LET r == ExecutionGetTransaction(store, t)
              id == ConstructedExecutionID(store, t)
          IN  /\ (r.ok /\ IsSome(r.value)) => Unwrap(r.value).id = t
              /\ (IsSome(id) /\ Unwrap(id) # t) => ~r.ok

\* Transactions 1 and 2, deployments of the same program, are stored: the
\* transaction constructed for transaction 1 carries the edition, the owner
\* and the program of transaction 2, so that its ID differs and
\* get_transaction(1) is an error, while get_transaction(2) returns
\* transaction 2; the execution store returns the stored transaction 6.
C24_Witness ==
    /\ IsSome(ConstructedDeploymentID(store, 1))
    /\ Unwrap(ConstructedDeploymentID(store, 1)) # 1
    /\ DeploymentGetTransaction(store, 1) = Bail
    /\ DeploymentGetTransaction(store, 2) = Ok(Some(Tx(2)))
    /\ ExecutionGetTransaction(store, 6) = Ok(Some(Tx(6)))

\* ExecutionStorage::get_execution.
GetExecution(s, transaction_id) ==
    LET edition == MapGetConfirmed(s, "x_edition", transaction_id)
        ids == MapGetConfirmed(s, "x_id", transaction_id)
        transitions == GetTransitions(s, Unwrap(ids)[1])
    IN  IF ~IsSome(edition) THEN Ok(None)
        ELSE IF ~IsSome(ids) THEN Bail
        ELSE IF ~IsSome(transitions) THEN Bail
        ELSE Ok(Some([ edition |-> Unwrap(edition),
                       transitions |-> Unwrap(transitions) ]))

\* Mutant: a get_deployment that forwards whatever the kind tag is.
TransactionStoreGetDeploymentAnyKind(s, transaction_id) ==
    IF ~IsSome(MapGetConfirmed(s, "tx_kind", transaction_id)) THEN Bail
    ELSE GetDeployment(s, transaction_id)

\* TransactionStore::get_deployment and TransactionStore::get_execution.
TransactionStoreGetDeployment(s, transaction_id) ==
    LET transaction_type == MapGetConfirmed(s, "tx_kind", transaction_id)
    IN  IF ~IsSome(transaction_type) THEN Bail
        ELSE IF Unwrap(transaction_type) = "Deploy"
             THEN GetDeployment(s, transaction_id)
             ELSE Bail

TransactionStoreGetExecution(s, transaction_id) ==
    LET transaction_type == MapGetConfirmed(s, "tx_kind", transaction_id)
    IN  IF ~IsSome(transaction_type) THEN Bail
        ELSE IF Unwrap(transaction_type) = "Deploy"
             THEN Bail
             ELSE GetExecution(s, transaction_id)

\* C25: for a transaction tagged Execute, get_deployment of the
\* TransactionStore is an error and get_execution is the result of the
\* execution store; for a transaction tagged Deploy, get_execution is an
\* error and get_deployment is the result of the deployment store.
C25_ReadsBranchOnKind ==
    \A t \in TxIds :
       LET transaction_type == MapGetConfirmed(store, "tx_kind", t)
       IN  /\ transaction_type = Some("Execute")
                => /\ TransactionStoreGetDeployment(store, t) = Bail
                   /\ TransactionStoreGetExecution(store, t) = GetExecution(store, t)
           /\ transaction_type = Some("Deploy")
                => /\ TransactionStoreGetExecution(store, t) = Bail
                   /\ TransactionStoreGetDeployment(store, t) = GetDeployment(store, t)

\* Transaction 1 is tagged Deploy and transaction 5 Execute: the matching
\* requests return the stored deployment and execution, and the crossed
\* requests are errors.
C25_Witness ==
    /\ TransactionStoreGetDeployment(store, 1) = Ok(Some(DeploymentOf(Tx(1))))
    /\ TransactionStoreGetExecution(store, 1) = Bail
    /\ TransactionStoreGetDeployment(store, 5) = Bail
    /\ TransactionStoreGetExecution(store, 5)
         = Ok(Some([ edition |-> 0,
                     transitions |-> << TransitionOf(5), TransitionOf(6) >> ]))

\* C26: while a batch is open on the map, an insert or a remove adds one
\* operation at the end of the queue and leaves the confirmed state as it
\* was; finish_atomic leaves every key with the value of the last operation
\* staged on it (absent when that operation is a remove) and every key the
\* batch does not touch with its confirmed value.
C26_LastStagedWins ==
    [][ /\ (store.open[SingleMap] /\ last'.op \in { "map_insert", "map_remove" })
            => /\ store'.db[SingleMap] = store.db[SingleMap]
               /\ Len(store'.batch[SingleMap]) = Len(store.batch[SingleMap]) + 1
               /\ SubSeq(store'.batch[SingleMap], 1, Len(store.batch[SingleMap]))
                    = store.batch[SingleMap]
               /\ store'.batch[SingleMap][Len(store'.batch[SingleMap])].key = last'.arg
        /\ last'.op = "map_finish_atomic"
            => \A k \in MapKeys :
                 LET pending == MapGetPending(store, SingleMap, k)
                 IN  MapGetConfirmed(store', SingleMap, k)
                       = IF IsSome(pending) THEN Unwrap(pending)
                         ELSE MapGetConfirmed(store, SingleMap, k) ]_vars

\* A batch is open on a map whose confirmed state holds key 2 and not key
\* 1, with insert(1, v1) and then insert(1, v2) staged: the confirmed state
\* is as it was, and finish_atomic makes key 1 hold v2.
C26_Witness ==
    /\ store.open[SingleMap]
    /\ store.batch[SingleMap]
         = << [ key |-> 1, value |-> Some(ValueOf(1)) ],
              [ key |-> 1, value |-> Some(ValueOf(2)) ] >>
    /\ MapGetConfirmed(store, SingleMap, 1) = None
    /\ MapGetConfirmed(store, SingleMap, 2) # None
    /\ MapGetConfirmed(MapFinishAtomic(store, SingleMap), SingleMap, 1)
         = Some(ValueOf(2))

\* C27: get_speculative(k) is the pending value when get_pending(k) is
\* Some(Some(v)), absent when it is Some(None) whatever the confirmed state
\* holds, and the confirmed value when it is None; when get_confirmed fails,
\* get_speculative returns that error whatever is pending.
C27_SpeculativeFollowsPending ==
    \A k \in MapKeys :
       LET pending == MapGetPending(store, SingleMap, k)
           confirmed == MapGetConfirmed(store, SingleMap, k)
       IN  /\ MapGetSpeculative(store, SingleMap, k, TRUE) = Bail
           /\ MapGetSpeculative(store, SingleMap, k, FALSE)
                = IF pending = None THEN Ok(confirmed)
                  ELSE IF Unwrap(pending) = None THEN Ok(None)
                  ELSE Ok(Unwrap(pending))

\* A batch is open on a map whose confirmed state holds key 1, with a remove
\* of key 1 and an insert of key 2 staged: key 1 reads as absent and key 2 as
\* the staged value, and a failing get_confirmed is returned for both.
C27_Witness ==
    /\ store.open[SingleMap]
    /\ MapGetConfirmed(store, SingleMap, 1) # None
    /\ MapGetPending(store, SingleMap, 1) = Some(None)
    /\ MapGetSpeculative(store, SingleMap, 1, FALSE) = Ok(None)
    /\ MapGetPending(store, SingleMap, 2) = Some(Some(ValueOf(2)))
    /\ MapGetSpeculative(store, SingleMap, 2, FALSE) = Ok(Some(ValueOf(2)))
    /\ MapGetSpeculative(store, SingleMap, 2, TRUE) = Bail

\* C28: whenever no batch is in progress on the map, no write is staged and
\* the checkpoint stack is empty; abort_atomic and finish_atomic leave the
\* map without batch, and the batch that start_atomic opens begins with no
\* staged write and no checkpoint.
C28_IdleIsEmpty ==
    /\ ~store.open[SingleMap]
         => (store.batch[SingleMap] = << >> /\ store.cps[SingleMap] = << >>)
    /\ last.op \in { "map_abort_atomic", "map_finish_atomic" }
         => ~store.open[SingleMap]
    /\ last.op = "map_start_atomic"
         => /\ store.open[SingleMap]
            /\ store.batch[SingleMap] = << >>
            /\ store.cps[SingleMap] = << >>

\* abort_atomic has ended a batch that held two staged writes and a
\* checkpoint: nothing is staged and the checkpoint stack is empty.
C28_Witness ==
    /\ last.op = "map_abort_atomic"
    /\ last.arg = 2
    /\ last.depth > 0
    /\ ~store.open[SingleMap]
    /\ store.batch[SingleMap] = << >>
    /\ store.cps[SingleMap] = << >>

\* C29: atomic_rewind on an open batch without checkpoint discards every
\* staged write and leaves the batch in progress; a step that ends the batch
\* of the map is made by abort_atomic or finish_atomic.
C29_RewindKeepsBatchOpen ==
    [][ /\ (last'.op = "map_atomic_rewind" /\ store.cps[SingleMap] = << >>)
            => /\ store'.batch[SingleMap] = << >>
               /\ store'.cps[SingleMap] = << >>
               /\ store'.open[SingleMap]
               /\ store'.db[SingleMap] = store.db[SingleMap]
        /\ (store.open[SingleMap] /\ ~store'.open[SingleMap])
            => last'.op \in { "map_abort_atomic", "map_finish_atomic" } ]_vars

\* atomic_rewind has discarded two staged writes of a batch without
\* checkpoint, and the batch is still in progress.
C29_Witness ==
    /\ last.op = "map_atomic_rewind"
    /\ last.arg = 2
    /\ store.open[SingleMap]
    /\ store.batch[SingleMap] = << >>
    /\ store.cps[SingleMap] = << >>

\* A scope of atomic_batch_scope is entered in the step, and one returns in
\* the step.
ScopeEntered ==
    /\ Len(frames') = Len(frames) + 1
    /\ frames'[Len(frames')].macro = "scope"

ScopeReturned == Len(frames') = Len(frames) - 1 /\ Top.macro = "scope"

\* C30: a scope that finds a batch in progress calls atomic_checkpoint when
\* it is entered, nothing when its body returns Ok and atomic_rewind when its
\* body returns Err, so that it neither starts nor ends a batch; a batch is
\* started only by the entry of a macro that finds none in progress, and is
\* ended only by the return of the macro that started it, which is the
\* outermost one: every scope inside another macro has found a batch in
\* progress.
C30_OutermostStartsAndFinishes ==
    [][ /\ \A i \in 2..Len(frames') :
              frames'[i].macro = "scope" /\ frames'[i].nested
        /\ ScopeEntered
            => LET scope == frames'[Len(frames')]
               IN  /\ scope.nested = IsAtomicInProgress(store)
                   /\ store' = IF scope.nested THEN AtomicCheckpoint(store)
                               ELSE StartAtomic(store)
        /\ ScopeReturned
            => /\ (Top.nested /\ last'.body = "Ok") => store' = store
               /\ last'.body = "Err" => store' = AtomicRewind(store)
               /\ (~Top.nested /\ last'.body = "Ok")
                    => \E failAt \in 0..NumParticipants :
                          store' = FinishAtomic(store, failAt).store
               /\ Top.nested
                    => /\ OfParticipants(store'.open) = OfParticipants(store.open)
                       /\ SameConfirmed(store, store')
        /\ (\E m \in ParticipantSet : ~store.open[m] /\ store'.open[m])
            => /\ Len(frames') = Len(frames) + 1
               /\ ~IsAtomicInProgress(store)
               /\ ~frames'[Len(frames')].nested
        /\ (\E m \in ParticipantSet : store.open[m] /\ ~store'.open[m])
            => /\ Len(frames) = 1
               /\ frames' = << >>
               /\ ~Top.nested ]_vars

\* A scope entered inside the scope that started the batch has returned Err
\* after a write: the batch is in progress, started by the outer scope, which
\* has not returned yet.
C30_Witness ==
    /\ last.op = "scope"
    /\ last.nested
    /\ last.body = "Err"
    /\ StagedCount(last.ret) > StagedCount(store)
    /\ Len(frames) = 1
    /\ frames[1].macro = "scope"
    /\ ~frames[1].nested
    /\ IsAtomicInProgress(store)

(***************************************************************************)
(* A reader beside a writer (specification SpecReader).  The writer makes  *)
(* top-level insert calls; the finish_atomic of the call commits one       *)
(* participant after the other, and the reader's lookups, which take each  *)
(* map's lock on their own, can fall between two of these commits.         *)
(* frames holds the writer's latest call.                                  *)
(***************************************************************************)
WriterTxs == { 1, 2 }

\* The participant whose commit comes next in the running finish_atomic.
NextToCommit(s) ==
    CHOOSE i \in 1..NumParticipants :
        /\ s.open[Participants[i]]
        /\ \A j \in 1..(i - 1) : ~s.open[Participants[j]]

\* insert(D) up to the call of finish_atomic: the checks, start_atomic and
\* the writes of the body, none of which fails.
WriterStages ==
    /\ ~IsAtomicInProgress(store)
    /\ \E i \in WriterTxs :
         /\ Tx(i).kind = "Deploy"
         /\ CheckIsOrdered(Tx(i))
         /\ ~Has(store.db["id"], i)
         /\ LET e == AtomicBatchScopeEnter(store)
                b == RunOps(e.store, DeploymentInsertOps(Tx(i)), 0)
            IN  /\ store' = b.store
                /\ frames' = << [ macro |-> "insert", nested |-> e.nested,
                                  entry |-> store, tx |-> i ] >>
         /\ last' = [ NoCall EXCEPT !.op = "stage", !.arg = i ]
    /\ UNCHANGED failed

\* finish_atomic commits its next participant; insert returns Ok after the
\* last one.
WriterCommits ==
    /\ IsAtomicInProgress(store)
    /\ frames # << >>
    /\ LET i == NextToCommit(store)
       IN  /\ store' = MapFinishAtomic(store, Participants[i])
           /\ last' = IF i = NumParticipants
                      THEN [ NoCall EXCEPT !.op = "deployment_insert",
                                           !.arg = frames[1].tx, !.body = "Ok" ]
                      ELSE [ NoCall EXCEPT !.op = "commit", !.arg = i ]
    /\ UNCHANGED <<frames, failed>>

\* What a reader obtained: nothing, the value asked for, another value or
\* an error.
Obtained(r, expected) ==
    IF ~r.ok THEN "Err"
    ELSE IF r.value = None THEN "None"
    ELSE IF r.value = Some(expected) THEN "Some"
    ELSE "Other"

\* The reader looks up the transaction of the writer's latest call.
ReaderGetTransaction ==
    /\ frames # << >>
    /\ LET t == frames[1].tx
           r == DeploymentGetTransaction(store, t)
       IN  last' = [ NoCall EXCEPT !.op = "get_transaction", !.arg = t,
                                   !.ok = r.ok, !.body = Obtained(r, Tx(t)) ]
    /\ UNCHANGED <<store, frames, failed>>

ReaderGetDeployment ==
    /\ frames # << >>
    /\ LET t == frames[1].tx
           r == GetDeployment(store, t)
       IN  last' = [ NoCall EXCEPT !.op = "get_deployment", !.arg = t,
                                   !.ok = r.ok,
                                   !.body = Obtained(r, DeploymentOf(Tx(t))) ]
    /\ UNCHANGED <<store, frames, failed>>

NextReader ==
    \/ WriterStages
    \/ WriterCommits
    \/ ReaderGetTransaction
    \/ ReaderGetDeployment

SpecReader == Init /\ [][NextReader]_vars

ReaderOps == { "get_transaction", "get_deployment" }

\* C31 as stated: a reader that looks up D beside the writer's insert(D)
\* obtains Ok(None) or Some(D).
C31_ReaderNeverSeesPartialCommit ==
    last.op \in ReaderOps => last.body \in { "None", "Some" }

\* C31 as amended: the reader obtains Ok(None) as long as the id map has not
\* committed and Some(D) once finish_atomic has committed every participant.
C31_ReaderSeesEndsOnly ==
    [][ last'.op \in ReaderOps
          => /\ store.open["id"] => last'.body = "None"
             /\ ~IsAtomicInProgress(store) => last'.body = "Some" ]_vars

\* With transaction 1 stored, the reader has obtained Some(D) for
\* get_transaction(2) after the finish_atomic of insert(2) committed every
\* participant.
C31_Witness ==
    /\ last.op = "get_transaction"
    /\ last.arg = 2
    /\ last.body = "Some"
    /\ Has(store.db["id"], 1)
    /\ ~IsAtomicInProgress(store)

\* The transactions that are deployments.
Deployments == { i \in TxIds : Tx(i).kind = "Deploy" }

\* C32: a deployment insert given an Execute transaction or a deployment
\* that is not ordered returns an error and leaves the store as it was: no
\* batch started, no checkpoint pushed, nothing staged, no map changed; and
\* an execution insert given a Deploy transaction does the same on every
\* store.
C32_RejectedBeforeAnyScope ==
    [][ /\ ( /\ last'.op = "deployment_insert"
             /\ ~(Tx(last'.arg).kind = "Deploy" /\ CheckIsOrdered(Tx(last'.arg))) )
            => (~last'.ok /\ store' = store)
        /\ \A i \in Deployments :
              ExecutionInsert(store, Tx(i), 0) = [ ok |-> FALSE, store |-> store ] ]_vars

\* A deployment insert has rejected the deployment that is not ordered
\* while a batch with staged writes was in progress.
C32_Witness ==
    /\ last.op = "deployment_insert"
    /\ last.arg = 4
    /\ ~last.ok
    /\ IsAtomicInProgress(store)
    /\ StagedCount(store) > 0

\* A lookup that deployment remove makes before its scope finds nothing in
\* the confirmed content db.
DeploymentEntryAbsent(db, t) ==
    \/ ~Has(db["id"], t)
    \/ ~Has(db["edition"], db["id"][t])
    \/ ~Has(db["program"], << db["id"][t], db["edition"][db["id"][t]] >>)
    \/ ~Has(db["fee"], t)

Unchanged(r, s) == ~r.ok /\ r.store = s

\* C33: a TransactionStorage remove of an ID without kind tag returns an
\* error and leaves the store as it was; on every store, a deployment remove
\* of an ID one of whose id, edition, program or fee lookups is absent, and
\* an execution remove of an ID without id entry, return an error and the
\* same store: no entry removed, nothing staged, no batch and no checkpoint
\* created.
C33_RemoveOfAbsentChangesNothing ==
    [][ /\ (last'.op = "transaction_remove" /\ ~Has(store.db["tx_kind"], last'.arg))
            => (~last'.ok /\ store' = store)
        /\ \A s \in { store, store' } : \A t \in TxIds :
              /\ ~Has(s.db["tx_kind"], t) => Unchanged(TransactionRemove(s, t, 0, 0), s)
              /\ DeploymentEntryAbsent(s.db, t)
                   => Unchanged(DeploymentRemove(s, t, 0, 0), s)
              /\ ~Has(s.db["x_id"], t) => Unchanged(ExecutionRemove(s, t, 0), s) ]_vars

\* A remove of an ID without kind tag has returned an error on a store that
\* holds a transaction.
C33_Witness ==
    /\ last.op = "transaction_remove"
    /\ last.body = "none"
    /\ ~last.ok
    /\ ~Has(store.db["tx_kind"], last.arg)
    /\ store.db["tx_kind"] # EmptyMap

(***************************************************************************)
(* Derived reads and their leading lookups.                                *)
(***************************************************************************)

\* DeploymentStorage::get_program, get_verifying_key and get_certificate.
GetProgram(s, program_id) ==
    LET edition == GetEdition(s, program_id).value
        program == MapGetConfirmed(s, "program", << program_id, Unwrap(edition) >>)
    IN  IF ~IsSome(edition) THEN Ok(None)
        ELSE IF ~IsSome(program) THEN Bail
        ELSE Ok(program)

GetVerifyingKey(s, program_id, function_name) ==
    LET edition == GetEdition(s, program_id).value
        verifying_key == MapGetConfirmed(s, "verifying_key",
                                         << program_id, function_name, Unwrap(edition) >>)
    IN  IF ~IsSome(edition) THEN Ok(None)
        ELSE IF ~IsSome(verifying_key) THEN Bail
        ELSE Ok(verifying_key)

GetCertificate(s, program_id, function_name) ==
    LET edition == GetEdition(s, program_id).value
        certificate == MapGetConfirmed(s, "certificate",
                                       << program_id, function_name, Unwrap(edition) >>)
    IN  IF ~IsSome(edition) THEN Ok(None)
        ELSE IF ~IsSome(certificate) THEN Bail
        ELSE Ok(certificate)

\* The program IDs and function names of the deployments.
ProgramIDs == { Tx(i).program_id : i \in Deployments }

FunctionNames ==
    UNION { { Tx(i).functions[j] : j \in 1..Len(Tx(i).functions) } : i \in Deployments }

\* The read result r is Ok(None) exactly when its leading lookup is absent,
\* an error when the leading lookup is present and a later one is absent,
\* and so Some only when every lookup is present.
LedBy(r, leading, later) ==
    /\ (r = Ok(None)) <=> ~leading
    /\ (leading /\ ~later) => r = Bail
    /\ (r.ok /\ IsSome(r.value)) => (leading /\ later)

\* The entries of the maps db that get_deployment(t) and get_transaction(t)
\* look up after id[t].
DeploymentPresent(db, t) ==
    /\ Has(db["edition"], db["id"][t])
    /\ LET p == db["id"][t]
           e == db["edition"][p]
       IN  /\ Has(db["program"], << p, e >>)
           /\ \A j \in 1..Len(db["program"][<< p, e >>].functions) :
                 LET f == db["program"][<< p, e >>].functions[j]
                 IN  /\ Has(db["verifying_key"], << p, f, e >>)
                     /\ Has(db["certificate"], << p, f, e >>)

DeploymentTransactionPresent(db, t) ==
    /\ DeploymentPresent(db, t)
    /\ Has(db["fee"], t)
    /\ Has(db["transition"], db["fee"][t][1])
    /\ Has(db["owner"], << db["id"][t], db["edition"][db["id"][t]] >>)

\* The entries that the execution reads of t look up after x_edition[t].
ExecutionPresent(db, t) ==
    /\ Has(db["x_id"], t)
    /\ \A j \in 1..Len(db["x_id"][t][1]) : Has(db["transition"], db["x_id"][t][1][j])

ExecutionTransactionPresent(db, t) ==
    /\ ExecutionPresent(db, t)
    /\ \A j \in 1..Len(db["x_id"][t][2]) : Has(db["transition"], db["x_id"][t][2][j])

\* C34: on every reachable store, each derived read is Ok(None) exactly
\* when its leading lookup is absent and an error when the leading lookup
\* is present and a later one is absent, so that no read returns Some built
\* from partial data: get_deployment and get_transaction lead with id[t],
\* get_fee with fee[t], get_program, get_owner, get_verifying_key,
\* get_certificate and find_transaction_id_from_program_id with
\* edition[program_id], the execution get_execution and get_transaction with
\* the execution edition[t].
C34_ReadsLedByFirstLookup ==
    LET db == store.db
    IN  /\ \A t \in TxIds :
              /\ LedBy(GetDeployment(store, t), Has(db["id"], t), DeploymentPresent(db, t))
              /\ LedBy(DeploymentGetTransaction(store, t), Has(db["id"], t),
                       DeploymentTransactionPresent(db, t))
              /\ LedBy(GetFee(store, t), Has(db["fee"], t),
                       Has(db["transition"], db["fee"][t][1]))
              /\ LedBy(GetExecution(store, t), Has(db["x_edition"], t),
                       ExecutionPresent(db, t))
              /\ LedBy(ExecutionGetTransaction(store, t), Has(db["x_edition"], t),
                       ExecutionTransactionPresent(db, t))
        /\ \A p \in ProgramIDs :
              LET e == db["edition"][p]
              IN  /\ LedBy(GetProgram(store, p), Has(db["edition"], p),
                           Has(db["program"], << p, e >>))
                  /\ LedBy(GetOwner(store, p), Has(db["edition"], p),
                           Has(db["owner"], << p, e >>))
                  /\ LedBy(FindTransactionIDFromProgramID(store, p), Has(db["edition"], p),
                           Has(db["reverse_id"], << p, e >>))
                  /\ \A f \in FunctionNames :
                        /\ LedBy(GetVerifyingKey(store, p, f), Has(db["edition"], p),
                                 Has(db["verifying_key"], << p, f, e >>))
                        /\ LedBy(GetCertificate(store, p, f), Has(db["edition"], p),
                                 Has(db["certificate"], << p, f, e >>))

\* A partial commit has left the id and edition entries of a deployment
\* without its program, and get_deployment and get_program fail while
\* get_fee still answers Ok(None).
C34_Witness ==
    \E t \in Deployments :
        /\ Has(store.db["id"], t)
        /\ Has(store.db["edition"], store.db["id"][t])
        /\ ~Has(store.db["fee"], t)
        /\ GetDeployment(store, t) = Bail
        /\ GetProgram(store, store.db["id"][t]) = Bail
        /\ GetFee(store, t) = Ok(None)

\* C35: after an atomic_batch_scope returns, with Ok or with Err, the
\* checkpoint stack of every participant has the depth it had when the
\* scope was entered.
C35_ScopeKeepsCheckpointDepth ==
    last.op = "scope" =>
        \A m \in ParticipantSet : Len(store.cps[m]) = Len(last.entry.cps[m])

\* C36 as stated: after an atomic_finalize that ran its body returns, also
\* when finish_atomic failed at a participant, no batch is in progress, no
\* participant holds staged writes and a following atomic_finalize is not
\* rejected.
C36_FinalizeLeavesNoBatch ==
    (last.op = "finalize" /\ ~last.bail)
        => /\ ~IsAtomicInProgress(store)
           /\ StagedCount(store) = 0
           /\ ~AtomicFinalizeEnter(store).bail

\* C36 amended: the same, unless finish_atomic failed at a participant.
C36_FinalizeLeavesNoBatchUnlessCommitFails ==
    (last.op = "finalize" /\ ~last.bail /\ ~last.partial)
        => /\ ~IsAtomicInProgress(store)
           /\ StagedCount(store) = 0
           /\ ~AtomicFinalizeEnter(store).bail

\* An atomic_finalize whose body staged writes has returned Err, and a
\* following atomic_finalize starts a batch.
C36_Witness ==
    /\ ReturnedFrom("finalize", "Err")
    /\ StagedCount(last.ret) = MaxStaged
    /\ ~AtomicFinalizeEnter(store).bail
    /\ IsAtomicInProgress(AtomicFinalizeEnter(store).store)

(***************************************************************************)
(* The entries of a transaction and the entries a call changes.            *)
(***************************************************************************)
\* The (map, key) pairs of the writes ws.
KeysOf(ws) == { << ws[j].map, ws[j].key >> : j \in 1..Len(ws) }

\* The entries that belong to transaction i: those its insert writes.
EntriesOf(i) ==
    KeysOf(IF Tx(i).kind = "Deploy" THEN DeploymentInsertOps(Tx(i))
           ELSE ExecutionInsertOps(Tx(i)))

\* The (map, key) pairs whose confirmed entry differs between db and db2.
ChangedEntries(db, db2) ==
    UNION { { << m, k >> : k \in { k \in DOMAIN db[m] \cup DOMAIN db2[m] :
                                     Get(db[m], k) # Get(db2[m], k) } } : m \in AllMaps }

\* The transactions whose id entry is in db.
Stored(db) == { i \in TxIds : Has(db["id"], i) \/ Has(db["x_id"], i) }

\* C37: a successful remove(t) of the deployment store or of the execution
\* store changes only entries that belong to t, and none that belongs to
\* another stored transaction.
C37_RemoveChangesOwnEntriesOnly ==
    [][ (last'.op \in { "deployment_remove", "execution_remove" } /\ last'.ok)
          => LET changed == ChangedEntries(store.db, store'.db)
             IN  /\ changed \subseteq EntriesOf(last'.arg)
                 /\ \A i \in Stored(store.db) \ { last'.arg } :
                       changed \cap EntriesOf(i) = {} ]_vars

\* A batch is open in which the insert of the deployment i is staged, and
\* the confirmed id map does not hold i.
InsertStaged(s, i) ==
    /\ IsAtomicInProgress(s)
    /\ ~Has(s.db["id"], i)
    /\ MapGetPending(s, "id", i) = Some(Some(Tx(i).program_id))

\* C38: while the insert of an ordered deployment D is staged in an open
\* batch and not confirmed, get_transaction(D.id) is Ok(None) and
\* remove(D.id) returns an error and leaves the store, staged writes
\* included, as it was; a successful finish_atomic taken from there makes
\* get_transaction(D.id) return Some(D).
C38_ReadsUseConfirmedView ==
    [][ \A i \in OrderedDeployments :
          InsertStaged(store, i) =>
            /\ DeploymentGetTransaction(store, i) = Ok(None)
            /\ Unchanged(DeploymentRemove(store, i, 0, 0), store)
            /\ (last'.op = "deployment_remove" /\ last'.arg = i)
                 => (~last'.ok /\ store' = store)
            /\ (last'.op = "finish_atomic" /\ last'.ok)
                 => DeploymentGetTransaction(store', i) = Ok(Some(Tx(i))) ]_vars

\* In a batch of the caller an insert is staged, and a remove of the same
\* transaction has just returned an error.
C38_Witness ==
    /\ last.op = "deployment_remove"
    /\ ~last.ok
    /\ InsertStaged(store, last.arg)
    /\ StagedCount(store) > 0
    /\ DeploymentGetTransaction(store, last.arg) = Ok(None)

\* The (map, key) pairs of the entries in the confirmed content db.
EntriesIn(db) == UNION { { << m, k >> : k \in DOMAIN db[m] } : m \in AllMaps }

\* insert(tx), insert(tx) again and remove(tx.id) on the store s, with no
\* call failing: the results of the three calls.
InsertTwiceRemoveRun(s, i) ==
    LET deploy == Tx(i).kind = "Deploy"
        once == IF deploy THEN DeploymentInsert(s, Tx(i), 0, 0)
                ELSE ExecutionInsert(s, Tx(i), 0)
        twice == IF deploy THEN DeploymentInsert(once.store, Tx(i), 0, 0)
                 ELSE ExecutionInsert(once.store, Tx(i), 0)
        removed == IF deploy THEN DeploymentRemove(twice.store, i, 0, 0)
                   ELSE ExecutionRemove(twice.store, i, 0)
    IN  [ once |-> once, twice |-> twice, removed |-> removed ]

Executions == { i \in TxIds : Tx(i).kind = "Execute" }

\* C39: on every store with no batch in progress, for an ordered deployment
\* and for an execution, insert(tx); insert(tx) succeeds and leaves the
\* store that the first insert left, and one remove(tx.id) after it
\* succeeds and leaves no entry of tx; and a successful insert that follows
\* a successful insert of the same transaction changes nothing.
C39_InsertIsIdempotent ==
    [][ /\ Idle(store) =>
              \A i \in OrderedDeployments \cup Executions :
                  LET run == InsertTwiceRemoveRun(store, i)
                  IN  /\ run.once.ok /\ run.twice.ok /\ run.removed.ok
                      /\ run.twice.store = run.once.store
                      /\ EntriesOf(i) \subseteq EntriesIn(run.once.store.db)
                      /\ EntriesOf(i) \cap EntriesIn(run.removed.store.db) = {}
        /\ ( /\ Idle(store)
             /\ last.op \in { "deployment_insert", "execution_insert" } /\ last.ok
             /\ last'.op = last.op /\ last'.ok /\ last'.arg = last.arg )
           => store' = store ]_vars

\* The second deployment of program 1 and an execution are stored beside the
\* first deployment, an insert has just succeeded, and inserting the second
\* deployment again leaves the store as it is.
C39_Witness ==
    /\ last.op = "deployment_insert" /\ last.ok /\ last.arg = 2
    /\ Idle(store)
    /\ Has(store.db["id"], 1) /\ Has(store.db["id"], 2) /\ Has(store.db["x_id"], 6)
    /\ InsertTwiceRemoveRun(store, 2).twice.store = store
    /\ Has(InsertTwiceRemoveRun(store, 2).removed.store.db["id"], 1)

(***************************************************************************)
(* Two callers of atomic_batch_scope! on the same DeploymentStore.  Each   *)
(* runs one scope; a step is one call on the store (the entry of the       *)
(* macro, a write of the body, the Ok arm or the Err arm), and the steps   *)
(* of the two callers interleave.  frames holds one record per caller that *)
(* has entered: its is_atomic_in_progress flag, the writes of its body,    *)
(* whether the other caller took a step in between, and how it returned.   *)
(***************************************************************************)
Callers == { 1, 2 }

\* The writes of the body of caller c: inserts under keys of its own.
CallerWrites(c) == { Write("id", c, Some(c)), Write("transition", c, Some(c)) }

Entered(c) == \E j \in 1..Len(frames) : frames[j].caller = c

FrameOf(c) == CHOOSE j \in 1..Len(frames) : frames[j].caller = c

Running(c) == Entered(c) /\ frames[FrameOf(c)].body = "running"

\* The frames after a step of caller c: every other caller that is inside
\* its scope has been interleaved with.
AfterStepOf(c) ==
    [ j \in 1..Len(frames) |->
        IF frames[j].caller # c /\ frames[j].body = "running"
        THEN [ frames[j] EXCEPT !.alone = FALSE ] ELSE frames[j] ]

CallerEnters ==
    \E c \in Callers :
        /\ ~Entered(c)
        /\ LET e == AtomicBatchScopeEnter(store)
           IN  /\ store' = e.store
               /\ frames' = Append(AfterStepOf(c),
                      [ macro |-> "scope", nested |-> e.nested, entry |-> store,
                        caller |-> c, wrote |-> << >>, body |-> "running",
                        ok |-> TRUE,
                        alone |-> \A d \in Callers \ { c } : ~Running(d) ])
        /\ last' = [ NoCall EXCEPT !.op = "enter", !.arg = c ]
        /\ UNCHANGED failed

CallerBodyWrites ==
    \E c \in Callers :
        /\ Running(c)
        /\ Len(frames[FrameOf(c)].wrote) < MaxStaged
        /\ \E w \in CallerWrites(c) :
              /\ store' = MapWrite(store, w.map, w.key, w.value)
              /\ frames' = [ AfterStepOf(c) EXCEPT ![FrameOf(c)].wrote = Append(@, w) ]
        /\ last' = [ NoCall EXCEPT !.op = "write", !.arg = c ]
        /\ UNCHANGED failed

CallerReturnsOk ==
    \E c \in Callers :
        /\ Running(c)
        /\ LET f == frames[FrameOf(c)]
           IN  \E failAt \in (IF f.nested THEN {0} ELSE 0..NumParticipants) :
                  LET r == AtomicBatchScopeOk(store, f.nested, failAt)
                  IN  /\ store' = r.store
                      /\ frames' = [ AfterStepOf(c) EXCEPT ![FrameOf(c)].body = "Ok",
                                                           ![FrameOf(c)].ok = r.ok ]
                      /\ last' = [ NoCall EXCEPT !.op = "scope", !.arg = c,
                                     !.nested = f.nested, !.body = "Ok", !.ok = r.ok,
                                     !.partial = ~r.ok, !.entry = f.entry, !.ret = store ]
        /\ UNCHANGED failed

CallerReturnsErr ==
    \E c \in Callers :
        /\ Running(c)
        /\ LET f == frames[FrameOf(c)]
               r == AtomicBatchScopeErr(store)
           IN  /\ store' = r.store
               /\ frames' = [ AfterStepOf(c) EXCEPT ![FrameOf(c)].body = "Err",
                                                    ![FrameOf(c)].ok = FALSE ]
               /\ last' = [ NoCall EXCEPT !.op = "scope", !.arg = c,
                              !.nested = f.nested, !.body = "Err", !.ok = FALSE,
                              !.entry = f.entry, !.ret = store ]
        /\ UNCHANGED failed

NextTwoCallers ==
    \/ CallerEnters
    \/ CallerBodyWrites
    \/ CallerReturnsOk
    \/ CallerReturnsErr

SpecTwoCallers == Init /\ [][NextTwoCallers]_vars

\* Every write of the body of the frame f is in the confirmed content of s,
\* or none is.
AllConfirmed(s, f) ==
    \A j \in 1..Len(f.wrote) :
        Get(s.db[f.wrote[j].map], f.wrote[j].key) = f.wrote[j].value

NoneConfirmed(s, f) ==
    \A j \in 1..Len(f.wrote) : ~Has(s.db[f.wrote[j].map], f.wrote[j].key)

\* Both callers have returned, and no finish_atomic has failed.
BothReturned ==
    /\ \A c \in Callers : Entered(c) /\ ~Running(c)
    /\ \A j \in 1..Len(frames) : frames[j].body = "Ok" => frames[j].ok

\* Each caller took a step while the other was inside its scope.
Interleaved == \A j \in 1..Len(frames) : ~frames[j].alone

\* C40 as stated: when two callers whose steps interleaved have both
\* returned, the writes of a caller whose body returned Ok are all in the
\* confirmed state and of the writes of a caller whose body returned Err
\* none is.
C40_OwnBodyDecides ==
    (BothReturned /\ Interleaved) =>
        \A j \in 1..Len(frames) :
            /\ frames[j].body = "Ok" => AllConfirmed(store, frames[j])
            /\ frames[j].body = "Err" => NoneConfirmed(store, frames[j])

\* C40 amended: the same for a caller that entered its scope with no batch
\* in progress and returned before the other caller took a step, whatever
\* the other caller does before or after.
C40_OwnBodyDecidesAlone ==
    \A j \in 1..Len(frames) :
        (frames[j].alone /\ ~frames[j].nested) =>
            /\ (frames[j].body = "Ok" /\ frames[j].ok) => AllConfirmed(store, frames[j])
            /\ frames[j].body = "Err" => NoneConfirmed(store, frames[j])

\* The two callers ran one after the other, each entering with no batch in
\* progress: the writes of the first, whose body returned Ok, are confirmed
\* and those of the second, whose body returned Err, are not.
C40_Witness ==
    /\ BothReturned
    /\ \A j \in 1..2 : frames[j].alone /\ ~frames[j].nested /\ Len(frames[j].wrote) = MaxStaged
    /\ frames[1].body = "Ok" /\ AllConfirmed(store, frames[1])
    /\ frames[2].body = "Err" /\ NoneConfirmed(store, frames[2])
    /\ Has(store.db["transition"], frames[1].caller)

=============================================================================
